---------------------------- MODULE Spec2Model ----------------------------
(***************************************************************************)
(* The DiceBox signaling broker (src/server.js, the storage-backed server  *)
(* of lines 382-1134): sessions, rooms, the host slot, the cleanup timers  *)
(* and the per-connection message and close handlers.                      *)
(*                                                                         *)
(* Every handler is an async function.  It is modelled as a task that      *)
(* advances one step per `await`: a step runs the synchronous code that    *)
(* follows the previous await and issues the next storage call, which the  *)
(* in-process backend executes at the call.  Steps of different tasks      *)
(* interleave.                                                             *)
(*                                                                         *)
(* The storage backend (./state-storage) is not among the sources; its     *)
(* operations are the ones the broker calls, with the meaning the          *)
(* specification gives them (section 4.3, 4.4).                            *)
(***************************************************************************)
EXTENDS Integers, Sequences, FiniteSets, Bags, TLC

\* ------------------------------------------------------------------ bounds
MaxPeerIds == 3          \* identities generatePeerId may mint in one run
MaxOrphans == 1          \* pending timers that left the cleanupTimers map

Conns == {"w1", "w2", "w3"}          \* transports (ws objects)
Tokens == {"t1", "t2"}               \* format-valid session tokens
BadToken == "bad"                    \* a token failing isValidSessionToken
Rooms == {"r1", "r2"}                \* format-valid room ids
BadRoom == "r!"                      \* a room id failing isValidRoomId
Ips == {"ip1", "ip2"}

NoConn == "none"
NoToken == "none"
NoRoom == "none"
NoPeer == 0
PeerIds == 1..MaxPeerIds

\* RATE_LIMIT.maxConnectionsPerIp
maxConnectionsPerIp == 10

\* getClientIp(req): the source address of a transport
IpOf(w) == IF w = "w2" THEN "ip2" ELSE "ip1"

\* transports are numbered in the order they arrive, tokens in the order they
\* are first presented
Earlier(w) == CASE w = "w1" -> {} [] w = "w2" -> {"w1"} [] OTHER -> {"w1", "w2"}
EarlierTokens(tok) == IF tok = "t2" THEN {"t1"} ELSE {}

VARIABLES
  conn,               \* per transport: readyState and the closure variables
  connectionsByIp,    \* ip -> set of tracked transports
  wsConnections,      \* peerId -> ws            (transport registry)
  hostWsConnections,  \* roomId -> ws
  cleanupTimers,      \* roomId -> timer         ("none" | "armed" | "spent")
  orphanTimers,       \* roomId -> pending timers no longer held by the map
  sessions,           \* storage: sessionToken -> session
  peers,              \* storage: peerId -> peer record
  rooms,              \* storage: roomId -> room record
  roomMembers,        \* storage: roomId -> set of peerId
  minted,             \* identities minted so far
  tasks,              \* bag of handler invocations in flight
  out,                \* messages written to transports by the last step
  messageRates,       \* per identity: message count and start of its window
  now,                \* Date.now(), in units of the clock
  signaling,          \* the browser's SignalingClient and its sockets and timers
  webrtc,             \* the browser's WebRTCManager, for one remote peer
  observed            \* what the browser has done so far, for the properties

vars == <<conn, connectionsByIp, wsConnections, hostWsConnections, cleanupTimers,
          orphanTimers, sessions, peers, rooms, roomMembers, minted, tasks, out,
          messageRates, now, signaling, webrtc, observed>>

clientVars == <<signaling, webrtc, observed>>

\* ------------------------------------------------------------ record shapes
NoSession == [exists |-> FALSE, peerId |-> NoPeer, roomId |-> NoRoom, lastSeen |-> 0]
NoPeerRec == [exists |-> FALSE, roomId |-> NoRoom, ip |-> "none"]
NoRoomRec == [exists |-> FALSE, hostPeerId |-> NoPeer]
NoRate == [exists |-> FALSE, count |-> 0, windowStart |-> 0]

Msg(to, type, roomId, peerId, info) ==
  [to |-> to, type |-> type, roomId |-> roomId, peerId |-> peerId, info |-> info]

\* ------------------------------------------------- storage (state-storage)
getSession(tok) == sessions[tok]
\* setSession(token, { peerId, roomId: null, lastSeen: now })
setSession(s, tok, p) ==
  [s EXCEPT ![tok] = [exists |-> TRUE, peerId |-> p, roomId |-> NoRoom, lastSeen |-> now]]
updateSessionLastSeen(s, tok) ==
  IF tok \in Tokens /\ s[tok].exists THEN [s EXCEPT ![tok].lastSeen = now] ELSE s
updateSessionRoom(s, tok, r) ==
  IF tok \in Tokens /\ s[tok].exists THEN [s EXCEPT ![tok].roomId = r] ELSE s

getPeer(p) == IF p \in PeerIds THEN peers[p] ELSE NoPeerRec
hasPeer(p) == p \in PeerIds /\ peers[p].exists
setPeer(ps, p, r, ip) == [ps EXCEPT ![p] = [exists |-> TRUE, roomId |-> r, ip |-> ip]]
deletePeer(ps, p) == [ps EXCEPT ![p] = NoPeerRec]

getRoom(r) == rooms[r]
setRoom(rs, r, host) == [rs EXCEPT ![r] = [exists |-> TRUE, hostPeerId |-> host]]
deleteRoom(rs, r) == [rs EXCEPT ![r] = NoRoomRec]
getRoomMembers(r) == roomMembers[r]
addRoomMember(ms, r, p) == [ms EXCEPT ![r] = @ \cup {p}]
removeRoomMember(ms, r, p) == [ms EXCEPT ![r] = @ \ {p}]

\* ------------------------------------------------------------- validation
isValidSessionToken(tok) == tok \in Tokens
isValidRoomId(r) == r \in Rooms

\* --------------------------------------------------------------- transport
\* sendTo(ws, message): written only to an OPEN transport
sendTo(w, type, roomId, peerId, info) ==
  IF w \in Conns /\ conn[w].state = "open"
  THEN {Msg(w, type, roomId, peerId, info)} ELSE {}

\* sendToPeer(peerId, message): through the transport registry
sendToPeer(p, type, roomId, peerId, info) ==
  IF p \in PeerIds /\ wsConnections[p] # NoConn
  THEN sendTo(wsConnections[p], type, roomId, peerId, info) ELSE {}

sendError(w, errorType) == sendTo(w, "error", NoRoom, NoPeer, errorType)

\* one notification to every listed member
notifyMembers(ms, type, roomId, peerId) ==
  UNION {sendToPeer(m, type, roomId, peerId, "") : m \in ms}

\* ------------------------------------------------------ admission (per ip)
checkConnectionLimit(ip) == Cardinality(connectionsByIp[ip]) < maxConnectionsPerIp
trackConnection(c, ip, w) == [c EXCEPT ![ip] = @ \cup {w}]
\* a close that leaves the address's set alone
untrackConnection_kept(c, ip, w) == c

untrackConnection(c, ip, w) == IF ip \in Ips THEN [c EXCEPT ![ip] = @ \ {w}] ELSE c

\* ----------------------------------------------------------------- timers
\* a host change that leaves the pending timer alone
clearCleanupTimer_kept(ts, r) == ts

\* clearTimeout(cleanupTimers.get(roomId)); cleanupTimers.delete(roomId)
clearCleanupTimer(ts, r) == [ts EXCEPT ![r] = "none"]

\* ------------------------------------------------------------------ tasks
Task(kind, w, type, roomId, pc) ==
  [kind |-> kind, conn |-> w, type |-> type, roomId |-> roomId, pc |-> pc,
   peer |-> NoPeerRec, room |-> NoRoomRec, members |-> {}, sess |-> NoSession,
   live |-> FALSE, targetPeerId |-> NoPeer, fromPeerId |-> NoPeer]

Running == BagToSet(tasks)
\* a handler or callback of one of the kinds in B is between two of its awaits
Blocked(B) == \E t \in Running : t.kind \in B
Replace(t, t2) == (tasks (-) SetToBag({t})) (+) SetToBag({t2})
Finish(t) == tasks (-) SetToBag({t})
Spawn(t) == tasks (+) SetToBag({t})

\* ------------------------------------------------- the browser's objects
\* src/public/js/dice-state-manager.js, class SignalingClient, and
\* src/unnamed/part_000, class WebRTCManager.  A WebSocket the client has
\* constructed keeps its handlers whether or not this.ws still refers to it:
\* the sockets this.ws no longer refers to are kept until their close event.
MaxDetached == 1         \* sockets awaiting their close event besides this.ws
MaxTimers == 2           \* reconnect timers pending at one time
MaxCandidates == 3       \* ICE candidates the remote peer sends in one run

\* this.maxReconnectAttempts
maxReconnectAttempts == 5

\* new WebSocket(wsUrl), with the connection timeout of its connect() armed
NewSocket == [state |-> "connecting", timeout |-> TRUE, greeted |-> FALSE]
ClosedSocket == [state |-> "closed", timeout |-> FALSE, greeted |-> FALSE]
NoSocket == [state |-> "null", timeout |-> FALSE, greeted |-> FALSE]

\* SignalingClient's constructor
NewSignalingClient ==
  [ws |-> NoSocket, detached |-> EmptyBag, peerId |-> FALSE,
   reconnectAttempts |-> 0, connectPromise |-> FALSE,
   reconnectTimers |-> EmptyBag]

\* WebRTCManager's constructor
\* WebRTCManager's constructor, for one remote peer: pc is "none" while
\* peerConnections holds no connection for the peer, "new" while the connection
\* has no remote description and "remote" once it has one; added are the
\* candidates passed to the connection's addIceCandidate
NewWebRTCManager ==
  [pc |-> "none", initiator |-> FALSE, pending |-> <<>>, added |-> <<>>,
   handler |-> "idle", applied |-> 0, received |-> 0]

NothingObserved == [unanswered |-> 0, disconnected |-> FALSE, early |-> <<>>]

\* --------------------------------------------------------------------- Init
Init ==
  /\ conn = [w \in Conns |-> [state |-> "new", peerId |-> NoPeer, token |-> NoToken]]
  /\ connectionsByIp = [ip \in Ips |-> {}]
  /\ wsConnections = [p \in PeerIds |-> NoConn]
  /\ hostWsConnections = [r \in Rooms |-> NoConn]
  /\ cleanupTimers = [r \in Rooms |-> "none"]
  /\ orphanTimers = [r \in Rooms |-> 0]
  /\ sessions = [t \in Tokens |-> NoSession]
  /\ peers = [p \in PeerIds |-> NoPeerRec]
  /\ rooms = [r \in Rooms |-> NoRoomRec]
  /\ roomMembers = [r \in Rooms |-> {}]
  /\ minted = 0
  /\ tasks = EmptyBag
  /\ out = {}
  /\ messageRates = [p \in PeerIds |-> NoRate]
  /\ now = 0
  /\ signaling = NewSignalingClient
  /\ webrtc = NewWebRTCManager
  /\ observed = NothingObserved

\* ------------------------------------------------------------ connections
\* ws.close(): an OPEN transport starts closing; its close event follows
wsClose(c, w) ==
  IF w \in Conns /\ c[w].state = "open" THEN [c EXCEPT ![w].state = "closing"] ELSE c

\* wss.on('connection'): admission by source address
Connect(B, w) ==
  /\ ~Blocked(B)
  /\ conn[w].state = "new"
  /\ \A v \in Earlier(w) : conn[v].state # "new"
  /\ IF ~checkConnectionLimit(IpOf(w))
     THEN /\ conn' = [conn EXCEPT ![w].state = "rejected"]
          /\ out' = {Msg(w, "error", NoRoom, NoPeer, "rate-limit")}
          /\ UNCHANGED connectionsByIp
     ELSE /\ conn' = [conn EXCEPT ![w].state = "open"]
          /\ connectionsByIp' = trackConnection(connectionsByIp, IpOf(w), w)
          /\ out' = {}
  /\ UNCHANGED <<wsConnections, hostWsConnections, cleanupTimers, orphanTimers,
                 sessions, peers, rooms, roomMembers, minted, tasks,
                 messageRates, now, clientVars>>

\* ------------------------------------------------------------------ hello
\* a server that hangs up on a message that is not hello
RecvBeforeHello_closed(B, w) ==
  /\ ~Blocked(B)
  /\ conn[w].state = "open" /\ conn[w].peerId = NoPeer
  /\ out' = sendError(w, "protocol-error")
  /\ conn' = wsClose(conn, w)
  /\ UNCHANGED <<connectionsByIp, wsConnections, hostWsConnections,
                 cleanupTimers, orphanTimers, sessions, peers, rooms, roomMembers,
                 minted, tasks, messageRates, now, clientVars>>

\* ws.on('message') before an identity is assigned: anything but hello
RecvBeforeHello(B, w) ==
  /\ ~Blocked(B)
  /\ conn[w].state = "open" /\ conn[w].peerId = NoPeer
  /\ out' = sendError(w, "protocol-error")
  /\ UNCHANGED <<conn, connectionsByIp, wsConnections, hostWsConnections,
                 cleanupTimers, orphanTimers, sessions, peers, rooms, roomMembers,
                 minted, tasks, messageRates, now, clientVars>>

\* hello: token validation, then await storage.getSession(sessionToken)
HelloStart(B, w, tok) ==
  /\ ~Blocked(B)
  /\ conn[w].state = "open" /\ conn[w].peerId = NoPeer
  /\ \A u \in EarlierTokens(tok) : \E v \in Conns : conn[v].token = u
  /\ IF ~isValidSessionToken(tok)
     THEN /\ out' = sendError(w, "invalid-session")
          /\ conn' = wsClose([conn EXCEPT ![w].token = tok], w)
          /\ UNCHANGED tasks
     ELSE /\ out' = {}
          /\ conn' = [conn EXCEPT ![w].token = tok]
          /\ tasks' = Spawn([Task("msg", w, "hello", NoRoom, "h1")
                               EXCEPT !.sess = getSession(tok)])
  /\ UNCHANGED <<connectionsByIp, wsConnections, hostWsConnections, cleanupTimers,
                 orphanTimers, sessions, peers, rooms, roomMembers, minted,
                 messageRates, now, clientVars>>

\* a lookup that treats every session as unusable
sessionIsFresh_never(s) == FALSE

\* SESSION_EXPIRY_SECONDS * 1000, scaled down to clock units
SessionExpiry == 2

\* a lookup that still restores a session seen exactly the expiry ago
sessionIsFresh_kept(s) == s.exists /\ now - s.lastSeen <= SessionExpiry

\* existingSession && (now - existingSession.lastSeen) < SESSION_EXPIRY_SECONDS * 1000
sessionIsFresh(s) == s.exists /\ now - s.lastSeen < SessionExpiry

\* restore: peerId = existingSession.peerId; await updateSessionLastSeen
\* new:     peerId = generatePeerId();       await setSession
HelloSession(t) ==
  /\ t.kind = "msg" /\ t.pc = "h1"
  /\ LET w == t.conn
         tok == conn[w].token
     IN IF sessionIsFresh(t.sess)
        THEN /\ conn' = [conn EXCEPT ![w].peerId = t.sess.peerId]
             /\ sessions' = updateSessionLastSeen(sessions, tok)
             /\ tasks' = Replace(t, [t EXCEPT !.pc = "h2", !.roomId = t.sess.roomId])
             /\ UNCHANGED minted
        ELSE /\ minted < MaxPeerIds
             /\ minted' = minted + 1
             /\ conn' = [conn EXCEPT ![w].peerId = minted + 1]
             /\ sessions' = setSession(sessions, tok, minted + 1)
             /\ tasks' = Replace(t, [t EXCEPT !.pc = "n1"])
  /\ out' = {}
  /\ UNCHANGED <<messageRates, now, clientVars>>
  /\ UNCHANGED <<connectionsByIp, wsConnections, hostWsConnections, cleanupTimers,
                 orphanTimers, peers, rooms, roomMembers>>

\* a restore that evicts nothing
evictedWs_none(oldWs, w) == NoConn

\* the transport the restore evicts: oldWs && oldWs !== ws
evictedWs(oldWs, w) == IF oldWs # NoConn /\ oldWs # w THEN oldWs ELSE NoConn

\* restore: close the old transport, wsConnections.set(peerId, ws); await setPeer
HelloRegister(t) ==
  /\ t.kind = "msg" /\ t.pc = "h2"
  /\ LET w == t.conn
         p == conn[w].peerId
     IN /\ conn' = wsClose(conn, evictedWs(wsConnections[p], w))
        /\ wsConnections' = [wsConnections EXCEPT ![p] = w]
        /\ peers' = setPeer(peers, p, t.roomId, IpOf(w))
        /\ tasks' = Replace(t, [t EXCEPT !.pc = "h3"])
  /\ out' = {}
  /\ UNCHANGED <<connectionsByIp, hostWsConnections, cleanupTimers, orphanTimers,
                 sessions, rooms, roomMembers, minted, messageRates, now, clientVars>>

\* restore: reply peer-id restored; if (previousRoomId) await getRoom
HelloReply(t) ==
  /\ t.kind = "msg" /\ t.pc = "h3"
  /\ LET w == t.conn
         p == conn[w].peerId
     IN /\ out' = sendTo(w, "peer-id", t.roomId, p, "restored")
        /\ tasks' = IF t.roomId # NoRoom
                    THEN Replace(t, [t EXCEPT !.pc = "h4", !.room = getRoom(t.roomId)])
                    ELSE Finish(t)
  /\ UNCHANGED <<conn, connectionsByIp, wsConnections, hostWsConnections,
                 cleanupTimers, orphanTimers, sessions, peers, rooms, roomMembers,
                 minted, messageRates, now, clientVars>>

\* restore: if (room) await getRoomMembers
HelloRoom(t) ==
  /\ t.kind = "msg" /\ t.pc = "h4"
  /\ tasks' = IF t.room.exists
              THEN Replace(t, [t EXCEPT !.pc = "h5", !.members = getRoomMembers(t.roomId)])
              ELSE Finish(t)
  /\ out' = {}
  /\ UNCHANGED <<conn, connectionsByIp, wsConnections, hostWsConnections,
                 cleanupTimers, orphanTimers, sessions, peers, rooms, roomMembers,
                 minted, messageRates, now, clientVars>>

\* a restore that never takes a room over
roomIsHostless_never(room) == FALSE

\* restore: the room is waiting for a host: if (!room.hostPeerId)
roomIsHostless(room) == room.hostPeerId = NoPeer

\* restore: if (!room.hostPeerId) await setRoom(previousRoomId, {hostPeerId: peerId})
HelloHostBody(t) ==
  IF roomIsHostless(t.room)
  THEN /\ rooms' = setRoom(rooms, t.roomId, conn[t.conn].peerId)
       /\ tasks' = Replace(t, [t EXCEPT !.pc = "h7"])
  ELSE /\ tasks' = Finish(t)
       /\ UNCHANGED rooms

\* restore: re-add to members if they were a member
HelloMember(t) ==
  /\ t.kind = "msg" /\ t.pc = "h5"
  /\ LET p == conn[t.conn].peerId
     IN IF p \notin t.members /\ t.room.hostPeerId # p
        THEN /\ roomMembers' = addRoomMember(roomMembers, t.roomId, p)
             /\ tasks' = Replace(t, [t EXCEPT !.pc = "h6"])
             /\ UNCHANGED rooms
        ELSE /\ UNCHANGED roomMembers
             /\ HelloHostBody(t)
  /\ out' = {}
  /\ UNCHANGED <<conn, connectionsByIp, wsConnections, hostWsConnections,
                 cleanupTimers, orphanTimers, sessions, peers, minted,
                 messageRates, now, clientVars>>

HelloHost(t) ==
  /\ t.kind = "msg" /\ t.pc = "h6"
  /\ HelloHostBody(t)
  /\ out' = {}
  /\ UNCHANGED <<conn, connectionsByIp, wsConnections, hostWsConnections,
                 cleanupTimers, orphanTimers, sessions, peers, roomMembers, minted,
                 messageRates, now, clientVars>>

\* restore: hostWsConnections.set, clear the cleanup timer; await getRoomMembers
HelloHostWs(t) ==
  /\ t.kind = "msg" /\ t.pc = "h7"
  /\ hostWsConnections' = [hostWsConnections EXCEPT ![t.roomId] = t.conn]
  /\ cleanupTimers' = clearCleanupTimer(cleanupTimers, t.roomId)
  /\ tasks' = Replace(t, [t EXCEPT !.pc = "h8", !.members = getRoomMembers(t.roomId)])
  /\ out' = {}
  /\ UNCHANGED <<conn, connectionsByIp, wsConnections, orphanTimers, sessions, peers,
                 rooms, roomMembers, minted, messageRates, now, clientVars>>

\* restore: notify members that the host is back
HelloNotify(t) ==
  /\ t.kind = "msg" /\ t.pc = "h8"
  /\ out' = notifyMembers(t.members, "host-reconnected", t.roomId, conn[t.conn].peerId)
  /\ tasks' = Finish(t)
  /\ UNCHANGED <<conn, connectionsByIp, wsConnections, hostWsConnections,
                 cleanupTimers, orphanTimers, sessions, peers, rooms, roomMembers,
                 minted, messageRates, now, clientVars>>

\* new session: wsConnections.set(peerId, ws); await setPeer
HelloNewRegister(t) ==
  /\ t.kind = "msg" /\ t.pc = "n1"
  /\ LET w == t.conn
         p == conn[w].peerId
     IN /\ wsConnections' = [wsConnections EXCEPT ![p] = w]
        /\ peers' = setPeer(peers, p, NoRoom, IpOf(w))
        /\ tasks' = Replace(t, [t EXCEPT !.pc = "n2"])
  /\ out' = {}
  /\ UNCHANGED <<conn, connectionsByIp, hostWsConnections, cleanupTimers,
                 orphanTimers, sessions, rooms, roomMembers, minted,
                 messageRates, now, clientVars>>

\* new session: reply peer-id restored=false
HelloNewReply(t) ==
  /\ t.kind = "msg" /\ t.pc = "n2"
  /\ out' = sendTo(t.conn, "peer-id", NoRoom, conn[t.conn].peerId, "new")
  /\ tasks' = Finish(t)
  /\ UNCHANGED <<conn, connectionsByIp, wsConnections, hostWsConnections,
                 cleanupTimers, orphanTimers, sessions, peers, rooms, roomMembers,
                 minted, messageRates, now, clientVars>>

\* ------------------------------------------------------- routed messages
MsgTypes == {"heartbeat", "query-room", "register-host", "claim-host", "join-room",
             "leave-room", "other"}
RoomMsgTypes == {"query-room", "register-host", "claim-host", "join-room"}

\* RATE_LIMIT.maxMessages and RATE_LIMIT.windowMs, scaled down; the clock runs
\* from 0 to MaxNow
maxMessages == 2
windowMs == 1
MaxNow == 2

\* checkRateLimit(peerId): the entry of the identity after the call.  A new
\* window starts when there is no entry or now - windowStart > windowMs.
checkRateLimit(mr, p, t) ==
  LET rateData == IF ~mr[p].exists \/ t - mr[p].windowStart > windowMs
                  THEN [exists |-> TRUE, count |-> 0, windowStart |-> t]
                  ELSE mr[p]
  IN [rateData EXCEPT !.count = @ + 1]

\* return rateData.count <= RATE_LIMIT.maxMessages
withinRateLimit(rateData) == rateData.count <= maxMessages

\* ws.on('message') of an ACTIVE connection after the rate check: a refused
\* message is answered with an error, an admitted one goes on to
\* await updateSessionLastSeen
MsgReceived(B, w, type, r, admitted) ==
  /\ ~Blocked(B)
  /\ conn[w].state = "open" /\ conn[w].peerId # NoPeer
  /\ IF ~admitted
     THEN /\ out' = sendError(w, "rate-limit")
          /\ UNCHANGED <<sessions, tasks>>
     ELSE /\ out' = {}
          /\ sessions' = updateSessionLastSeen(sessions, conn[w].token)
          /\ tasks' = Spawn(Task("msg", w, type, r, "m1"))
  /\ UNCHANGED <<conn, connectionsByIp, wsConnections, hostWsConnections,
                 cleanupTimers, orphanTimers, peers, rooms, roomMembers, minted,
                 now, clientVars>>

\* a message whose rate check is not followed: its outcome depends on the
\* clock and is an input here
MsgStart(B, w, type, r) ==
  /\ \E admitted \in BOOLEAN : MsgReceived(B, w, type, r, admitted)
  /\ UNCHANGED messageRates

\* a message with its rate check: if (!checkRateLimit(peerId)) sendError.  The
\* count stops at maxMessages + 1.
RatedMsgStart(B, w, type, r) ==
  /\ conn[w].peerId # NoPeer
  /\ LET rateData == checkRateLimit(messageRates, conn[w].peerId, now)
     IN /\ rateData.count <= maxMessages + 1
        /\ messageRates' = [messageRates EXCEPT ![conn[w].peerId] = rateData]
        /\ MsgReceived(B, w, type, r, withinRateLimit(rateData))

\* the clock advances
Tick(B) ==
  /\ ~Blocked(B)
  /\ now < MaxNow
  /\ now' = now + 1
  /\ out' = {}
  /\ UNCHANGED <<conn, connectionsByIp, wsConnections, hostWsConnections,
                 cleanupTimers, orphanTimers, sessions, peers, rooms, roomMembers,
                 minted, tasks, messageRates, clientVars>>

\* heartbeat is acknowledged; otherwise const peer = await storage.getPeer(peerId)
MsgPeer(t) ==
  /\ t.kind = "msg" /\ t.pc = "m1"
  /\ IF t.type = "heartbeat"
     THEN /\ out' = sendTo(t.conn, "heartbeat-ack", NoRoom, NoPeer, "")
          /\ tasks' = Finish(t)
     ELSE /\ out' = {}
          /\ tasks' = Replace(t, [t EXCEPT !.pc = "m2",
                                           !.peer = getPeer(conn[t.conn].peerId)])
  /\ UNCHANGED <<conn, connectionsByIp, wsConnections, hostWsConnections,
                 cleanupTimers, orphanTimers, sessions, peers, rooms, roomMembers,
                 minted, messageRates, now, clientVars>>

\* default: unknown message types are silently ignored
IgnoreUnknown(t) ==
  /\ t.kind = "msg" /\ t.pc = "m2" /\ t.type = "other"
  /\ out' = {}
  /\ tasks' = Finish(t)
  /\ UNCHANGED <<conn, connectionsByIp, wsConnections, hostWsConnections,
                 cleanupTimers, orphanTimers, sessions, peers, rooms, roomMembers,
                 minted, messageRates, now, clientVars>>

\* ------------------------------------------------------------------ relay
RelayTypes == {"offer", "answer", "ice-candidate"}

\* isValidPeerId(peerId): an absent targetPeerId is not valid
isValidPeerId(p) == p \in PeerIds

\* an identity spelled by the client although the message needs none
relayed_kept(message, peerId) ==
  IF message.fromPeerId # NoPeer THEN message ELSE [message EXCEPT !.fromPeerId = peerId]

\* { ...message, fromPeerId: peerId }: the sender's identity replaces whatever
\* the client wrote in that field
relayed(message, peerId) == [message EXCEPT !.fromPeerId = peerId]

\* an offer, answer or ice-candidate of an identified connection arrives, with
\* the targetPeerId and the fromPeerId the client wrote (NoPeer: field absent)
RelayMsgStart(B, w, type, target, from) ==
  /\ ~Blocked(B)
  /\ conn[w].state = "open" /\ conn[w].peerId # NoPeer
  /\ \E admitted \in BOOLEAN :
       IF ~admitted
       THEN /\ out' = sendError(w, "rate-limit")
            /\ UNCHANGED <<sessions, tasks>>
       ELSE /\ out' = {}
            /\ sessions' = updateSessionLastSeen(sessions, conn[w].token)
            /\ tasks' = Spawn([Task("msg", w, type, NoRoom, "m1")
                                 EXCEPT !.targetPeerId = target, !.fromPeerId = from])
  /\ UNCHANGED <<conn, connectionsByIp, wsConnections, hostWsConnections,
                 cleanupTimers, orphanTimers, peers, rooms, roomMembers, minted,
                 messageRates, now, clientVars>>

\* isValidPeerId(targetPeerId), then await storage.hasPeer(targetPeerId)
RelayCheck(t) ==
  /\ t.kind = "msg" /\ t.pc = "m2" /\ t.type \in RelayTypes
  /\ IF ~isValidPeerId(t.targetPeerId)
     THEN /\ out' = sendError(t.conn, "invalid-peer")
          /\ tasks' = Finish(t)
     ELSE /\ out' = {}
          /\ tasks' = Replace(t, [t EXCEPT !.pc = "x1", !.live = hasPeer(t.targetPeerId)])
  /\ UNCHANGED <<conn, connectionsByIp, wsConnections, hostWsConnections,
                 cleanupTimers, orphanTimers, sessions, peers, rooms, roomMembers,
                 minted, messageRates, now, clientVars>>

\* peer-not-found, or sendToPeer(targetPeerId, { ...message, fromPeerId })
RelaySend(t) ==
  /\ t.kind = "msg" /\ t.pc = "x1"
  /\ IF ~t.live
     THEN out' = sendError(t.conn, "peer-not-found")
     ELSE LET message == relayed([type |-> t.type, targetPeerId |-> t.targetPeerId,
                                  fromPeerId |-> t.fromPeerId], conn[t.conn].peerId)
          IN out' = sendToPeer(message.targetPeerId, message.type, NoRoom,
                               message.fromPeerId, "")
  /\ tasks' = Finish(t)
  /\ UNCHANGED <<conn, connectionsByIp, wsConnections, hostWsConnections,
                 cleanupTimers, orphanTimers, sessions, peers, rooms, roomMembers,
                 minted, messageRates, now, clientVars>>

\* the first step of query-room, register-host, claim-host and join-room:
\* isValidRoomId, then await storage.getRoom(roomId)
RoomMsgStart(t, failed, info, next) ==
  /\ IF ~isValidRoomId(t.roomId)
     THEN /\ out' = sendTo(t.conn, failed, IF failed = "room-info" THEN NoRoom ELSE t.roomId,
                           NoPeer, info)
          /\ tasks' = Finish(t)
     ELSE /\ out' = {}
          /\ tasks' = Replace(t, [t EXCEPT !.pc = next, !.room = getRoom(t.roomId)])
  /\ UNCHANGED <<conn, connectionsByIp, wsConnections, hostWsConnections,
                 cleanupTimers, orphanTimers, sessions, peers, rooms, roomMembers,
                 minted, messageRates, now, clientVars>>

\* ------------------------------------------------------------- query-room
QueryRoomStart(t) ==
  /\ t.kind = "msg" /\ t.pc = "m2" /\ t.type = "query-room"
  /\ RoomMsgStart(t, "room-info", "Invalid room ID", "q1")

\* room-info: exists and, for an existing room, room.hostPeerId
QueryRoomReply(t) ==
  /\ t.kind = "msg" /\ t.pc = "q1"
  /\ out' = IF t.room.exists
            THEN sendTo(t.conn, "room-info", t.roomId, t.room.hostPeerId, "exists")
            ELSE sendTo(t.conn, "room-info", t.roomId, NoPeer, "absent")
  /\ tasks' = Finish(t)
  /\ UNCHANGED <<conn, connectionsByIp, wsConnections, hostWsConnections,
                 cleanupTimers, orphanTimers, sessions, peers, rooms, roomMembers,
                 minted, messageRates, now, clientVars>>

\* ---------------------------------------------------------- register-host
RegisterHostStart(t) ==
  /\ t.kind = "msg" /\ t.pc = "m2" /\ t.type = "register-host"
  /\ RoomMsgStart(t, "register-host-failed", "Invalid room ID format", "rh1")

\* a register-host without the liveness check
registerHostRefused_never(existingRoom, live) == FALSE

\* a register-host that trusts the stored hostPeerId instead of the liveness check
registerHostRefused_stored(existingRoom, live) ==
  existingRoom.exists /\ existingRoom.hostPeerId # NoPeer

\* if (existingRoom && await storage.hasPeer(existingRoom.hostPeerId)): refuse
registerHostRefused(existingRoom, live) == existingRoom.exists /\ live

\* refused: register-host-failed.  Otherwise clear the cleanup timer and
\* await storage.setRoom(roomId, {hostPeerId: peerId, createdAt})
RegisterHostBody(t, live) ==
  IF registerHostRefused(t.room, live)
  THEN /\ out' = sendTo(t.conn, "register-host-failed", t.roomId, NoPeer,
                        "Room already has a host")
       /\ tasks' = Finish(t)
       /\ UNCHANGED <<cleanupTimers, rooms>>
  ELSE /\ out' = {}
       /\ cleanupTimers' = clearCleanupTimer(cleanupTimers, t.roomId)
       /\ rooms' = setRoom(rooms, t.roomId, conn[t.conn].peerId)
       /\ tasks' = Replace(t, [t EXCEPT !.pc = "rh3"])

\* existingRoom ? await hasPeer(existingRoom.hostPeerId) : continue at once
RegisterHostCheck(t) ==
  /\ t.kind = "msg" /\ t.pc = "rh1"
  /\ IF t.room.exists
     THEN /\ tasks' = Replace(t, [t EXCEPT !.pc = "rh2",
                                           !.live = hasPeer(t.room.hostPeerId)])
          /\ out' = {}
          /\ UNCHANGED <<cleanupTimers, rooms>>
     ELSE RegisterHostBody(t, FALSE)
  /\ UNCHANGED <<conn, connectionsByIp, wsConnections, hostWsConnections,
                 orphanTimers, sessions, peers, roomMembers, minted,
                 messageRates, now, clientVars>>

RegisterHostDecide(t) ==
  /\ t.kind = "msg" /\ t.pc = "rh2"
  /\ RegisterHostBody(t, t.live)
  /\ UNCHANGED <<conn, connectionsByIp, wsConnections, hostWsConnections,
                 orphanTimers, sessions, peers, roomMembers, minted,
                 messageRates, now, clientVars>>

\* hostWsConnections.set(roomId, ws); await setPeer(peerId, {...peer, roomId})
RegisterHostWs(t) ==
  /\ t.kind = "msg" /\ t.pc = "rh3"
  /\ hostWsConnections' = [hostWsConnections EXCEPT ![t.roomId] = t.conn]
  /\ peers' = setPeer(peers, conn[t.conn].peerId, t.roomId, t.peer.ip)
  /\ tasks' = Replace(t, [t EXCEPT !.pc = "rh4"])
  /\ out' = {}
  /\ UNCHANGED <<conn, connectionsByIp, wsConnections, cleanupTimers, orphanTimers,
                 sessions, rooms, roomMembers, minted, messageRates, now, clientVars>>

\* await storage.updateSessionRoom(sessionToken, roomId)
RegisterHostSession(t) ==
  /\ t.kind = "msg" /\ t.pc = "rh4"
  /\ sessions' = updateSessionRoom(sessions, conn[t.conn].token, t.roomId)
  /\ tasks' = Replace(t, [t EXCEPT !.pc = "rh5"])
  /\ out' = {}
  /\ UNCHANGED <<conn, connectionsByIp, wsConnections, hostWsConnections,
                 cleanupTimers, orphanTimers, peers, rooms, roomMembers, minted,
                 messageRates, now, clientVars>>

RegisterHostReply(t) ==
  /\ t.kind = "msg" /\ t.pc = "rh5"
  /\ out' = sendTo(t.conn, "register-host-success", t.roomId, NoPeer, "")
  /\ tasks' = Finish(t)
  /\ UNCHANGED <<conn, connectionsByIp, wsConnections, hostWsConnections,
                 cleanupTimers, orphanTimers, sessions, peers, rooms, roomMembers,
                 minted, messageRates, now, clientVars>>

\* ------------------------------------------------------------- claim-host
ClaimHostStart(t) ==
  /\ t.kind = "msg" /\ t.pc = "m2" /\ t.type = "claim-host"
  /\ RoomMsgStart(t, "claim-host-failed", "Invalid room ID format", "ch1")

\* a claim-host that is never refused
claimHostAllowed_always(room, live) == TRUE

\* a claim-host that trusts the stored hostPeerId instead of the liveness check
claimHostAllowed_stored(room, live) == ~room.exists \/ room.hostPeerId = NoPeer

\* if (!room || !await storage.hasPeer(room.hostPeerId)): claim
claimHostAllowed(room, live) == ~room.exists \/ ~live

\* allowed: clear the cleanup timer, await storage.setRoom(roomId, {hostPeerId:
\* peerId, createdAt}).  Otherwise claim-host-failed.
ClaimHostBody(t, live) ==
  IF claimHostAllowed(t.room, live)
  THEN /\ out' = {}
       /\ cleanupTimers' = clearCleanupTimer(cleanupTimers, t.roomId)
       /\ rooms' = setRoom(rooms, t.roomId, conn[t.conn].peerId)
       /\ tasks' = Replace(t, [t EXCEPT !.pc = "ch3"])
  ELSE /\ out' = sendTo(t.conn, "claim-host-failed", t.roomId, NoPeer,
                        "Room already has active host")
       /\ tasks' = Finish(t)
       /\ UNCHANGED <<cleanupTimers, rooms>>

\* !room ? continue at once : await hasPeer(room.hostPeerId)
ClaimHostCheck(t) ==
  /\ t.kind = "msg" /\ t.pc = "ch1"
  /\ IF t.room.exists
     THEN /\ tasks' = Replace(t, [t EXCEPT !.pc = "ch2",
                                           !.live = hasPeer(t.room.hostPeerId)])
          /\ out' = {}
          /\ UNCHANGED <<cleanupTimers, rooms>>
     ELSE ClaimHostBody(t, FALSE)
  /\ UNCHANGED <<conn, connectionsByIp, wsConnections, hostWsConnections,
                 orphanTimers, sessions, peers, roomMembers, minted,
                 messageRates, now, clientVars>>

ClaimHostDecide(t) ==
  /\ t.kind = "msg" /\ t.pc = "ch2"
  /\ ClaimHostBody(t, t.live)
  /\ UNCHANGED <<conn, connectionsByIp, wsConnections, hostWsConnections,
                 orphanTimers, sessions, peers, roomMembers, minted,
                 messageRates, now, clientVars>>

\* hostWsConnections.set(roomId, ws); await setPeer(peerId, {...peer, roomId})
ClaimHostWs(t) ==
  /\ t.kind = "msg" /\ t.pc = "ch3"
  /\ hostWsConnections' = [hostWsConnections EXCEPT ![t.roomId] = t.conn]
  /\ peers' = setPeer(peers, conn[t.conn].peerId, t.roomId, t.peer.ip)
  /\ tasks' = Replace(t, [t EXCEPT !.pc = "ch4"])
  /\ out' = {}
  /\ UNCHANGED <<conn, connectionsByIp, wsConnections, cleanupTimers, orphanTimers,
                 sessions, rooms, roomMembers, minted, messageRates, now, clientVars>>

\* await storage.updateSessionRoom(sessionToken, roomId)
ClaimHostSession(t) ==
  /\ t.kind = "msg" /\ t.pc = "ch4"
  /\ sessions' = updateSessionRoom(sessions, conn[t.conn].token, t.roomId)
  /\ tasks' = Replace(t, [t EXCEPT !.pc = "ch5"])
  /\ out' = {}
  /\ UNCHANGED <<conn, connectionsByIp, wsConnections, hostWsConnections,
                 cleanupTimers, orphanTimers, peers, rooms, roomMembers, minted,
                 messageRates, now, clientVars>>

ClaimHostReply(t) ==
  /\ t.kind = "msg" /\ t.pc = "ch5"
  /\ out' = sendTo(t.conn, "claim-host-success", t.roomId, NoPeer, "")
  /\ tasks' = Finish(t)
  /\ UNCHANGED <<conn, connectionsByIp, wsConnections, hostWsConnections,
                 cleanupTimers, orphanTimers, sessions, peers, rooms, roomMembers,
                 minted, messageRates, now, clientVars>>

\* -------------------------------------------------------------- join-room
JoinRoomStart(t) ==
  /\ t.kind = "msg" /\ t.pc = "m2" /\ t.type = "join-room"
  /\ RoomMsgStart(t, "join-room-failed", "Invalid room ID format", "j1")

\* if (!room) join-room-failed; else await storage.hasPeer(room.hostPeerId)
JoinRoomCheck(t) ==
  /\ t.kind = "msg" /\ t.pc = "j1"
  /\ IF ~t.room.exists
     THEN /\ out' = sendTo(t.conn, "join-room-failed", t.roomId, NoPeer,
                           "Room does not exist")
          /\ tasks' = Finish(t)
     ELSE /\ out' = {}
          /\ tasks' = Replace(t, [t EXCEPT !.pc = "j2",
                                           !.live = hasPeer(t.room.hostPeerId)])
  /\ UNCHANGED <<conn, connectionsByIp, wsConnections, hostWsConnections,
                 cleanupTimers, orphanTimers, sessions, peers, rooms, roomMembers,
                 minted, messageRates, now, clientVars>>

\* a join-room without the liveness check
hostIsDisconnected_never(live) == FALSE

\* if (!await storage.hasPeer(room.hostPeerId)): the host is disconnected
hostIsDisconnected(live) == ~live

\* host gone: join-room-failed; else await setPeer(peerId, {...peer, roomId})
JoinRoomDecide(t) ==
  /\ t.kind = "msg" /\ t.pc = "j2"
  /\ IF hostIsDisconnected(t.live)
     THEN /\ out' = sendTo(t.conn, "join-room-failed", t.roomId, NoPeer,
                           "Room host is disconnected")
          /\ tasks' = Finish(t)
          /\ UNCHANGED peers
     ELSE /\ out' = {}
          /\ peers' = setPeer(peers, conn[t.conn].peerId, t.roomId, t.peer.ip)
          /\ tasks' = Replace(t, [t EXCEPT !.pc = "j3"])
  /\ UNCHANGED <<conn, connectionsByIp, wsConnections, hostWsConnections,
                 cleanupTimers, orphanTimers, sessions, rooms, roomMembers, minted,
                 messageRates, now, clientVars>>

\* await storage.addRoomMember(roomId, peerId)
JoinRoomMember(t) ==
  /\ t.kind = "msg" /\ t.pc = "j3"
  /\ roomMembers' = addRoomMember(roomMembers, t.roomId, conn[t.conn].peerId)
  /\ tasks' = Replace(t, [t EXCEPT !.pc = "j4"])
  /\ out' = {}
  /\ UNCHANGED <<conn, connectionsByIp, wsConnections, hostWsConnections,
                 cleanupTimers, orphanTimers, sessions, peers, rooms, minted,
                 messageRates, now, clientVars>>

\* await storage.updateSessionRoom(sessionToken, roomId)
JoinRoomSession(t) ==
  /\ t.kind = "msg" /\ t.pc = "j4"
  /\ sessions' = updateSessionRoom(sessions, conn[t.conn].token, t.roomId)
  /\ tasks' = Replace(t, [t EXCEPT !.pc = "j5"])
  /\ out' = {}
  /\ UNCHANGED <<conn, connectionsByIp, wsConnections, hostWsConnections,
                 cleanupTimers, orphanTimers, peers, rooms, roomMembers, minted,
                 messageRates, now, clientVars>>

\* join-room-success to the caller, peer-connecting to hostWsConnections.get(roomId)
JoinRoomReply(t) ==
  /\ t.kind = "msg" /\ t.pc = "j5"
  /\ out' = sendTo(t.conn, "join-room-success", t.roomId, t.room.hostPeerId, "")
            \cup sendTo(hostWsConnections[t.roomId], "peer-connecting", NoRoom,
                        conn[t.conn].peerId, "")
  /\ tasks' = Finish(t)
  /\ UNCHANGED <<conn, connectionsByIp, wsConnections, hostWsConnections,
                 cleanupTimers, orphanTimers, sessions, peers, rooms, roomMembers,
                 minted, messageRates, now, clientVars>>

\* ------------------------------------------------- scheduleRoomCleanup
\* scheduleRoomCleanup(roomId), called without await: it runs up to its own
\* await storage.getRoom(roomId) and continues as a task of its own
scheduleRoomCleanup(r) == [Task("sched", NoConn, "", r, "s1") EXCEPT !.room = getRoom(r)]

\* if (!room) return; clear the existing timer; arm a new one; cleanupTimers.set
ScheduleTimer(t) ==
  /\ t.kind = "sched" /\ t.pc = "s1"
  /\ cleanupTimers' = IF t.room.exists
                      THEN [cleanupTimers EXCEPT ![t.roomId] = "armed"]
                      ELSE cleanupTimers
  /\ tasks' = Finish(t)
  /\ out' = {}
  /\ UNCHANGED <<conn, connectionsByIp, wsConnections, hostWsConnections,
                 orphanTimers, sessions, peers, rooms, roomMembers, minted,
                 messageRates, now, clientVars>>

\* ROOM_CLEANUP_DELAY has elapsed for the timer held by cleanupTimers: its
\* callback starts with await storage.getRoom(roomId)
TimerFire(B, r) ==
  /\ ~Blocked(B)
  /\ cleanupTimers[r] = "armed"
  /\ cleanupTimers' = [cleanupTimers EXCEPT ![r] = "spent"]
  /\ tasks' = Spawn([Task("timer", NoConn, "", r, "t1") EXCEPT !.room = getRoom(r)])
  /\ out' = {}
  /\ UNCHANGED <<conn, connectionsByIp, wsConnections, hostWsConnections,
                 orphanTimers, sessions, peers, rooms, roomMembers, minted,
                 messageRates, now, clientVars>>

\* the same for a pending timer that cleanupTimers no longer holds
OrphanTimerFire(B, r) ==
  /\ ~Blocked(B)
  /\ orphanTimers[r] > 0
  /\ orphanTimers' = [orphanTimers EXCEPT ![r] = @ - 1]
  /\ tasks' = Spawn([Task("timer", NoConn, "", r, "t1") EXCEPT !.room = getRoom(r)])
  /\ out' = {}
  /\ UNCHANGED <<conn, connectionsByIp, wsConnections, hostWsConnections,
                 cleanupTimers, sessions, peers, rooms, roomMembers, minted,
                 messageRates, now, clientVars>>

\* a re-check that never finds the room hostless
timerSeesHostless_never(currentRoom) == FALSE

\* the callback's re-check: if (currentRoom && !currentRoom.hostPeerId)
timerSeesHostless(currentRoom) == currentRoom.exists /\ currentRoom.hostPeerId = NoPeer

\* still hostless: await storage.getRoomMembers(roomId); else nothing
TimerCheck(t) ==
  /\ t.kind = "timer" /\ t.pc = "t1"
  /\ tasks' = IF timerSeesHostless(t.room)
              THEN Replace(t, [t EXCEPT !.pc = "t2", !.members = getRoomMembers(t.roomId)])
              ELSE Finish(t)
  /\ out' = {}
  /\ UNCHANGED <<conn, connectionsByIp, wsConnections, hostWsConnections,
                 cleanupTimers, orphanTimers, sessions, peers, rooms, roomMembers,
                 minted, messageRates, now, clientVars>>

\* room-closed to every member; await storage.deleteRoom(roomId)
TimerNotify(t) ==
  /\ t.kind = "timer" /\ t.pc = "t2"
  /\ out' = notifyMembers(t.members, "room-closed", t.roomId, NoPeer)
  /\ rooms' = deleteRoom(rooms, t.roomId)
  /\ roomMembers' = [roomMembers EXCEPT ![t.roomId] = {}]
  /\ tasks' = Replace(t, [t EXCEPT !.pc = "t3"])
  /\ UNCHANGED <<conn, connectionsByIp, wsConnections, hostWsConnections,
                 cleanupTimers, orphanTimers, sessions, peers, minted,
                 messageRates, now, clientVars>>

\* hostWsConnections.delete(roomId); cleanupTimers.delete(roomId): a timer armed
\* in the meantime leaves the map still pending
TimerDelete(t) ==
  /\ t.kind = "timer" /\ t.pc = "t3"
  /\ hostWsConnections' = [hostWsConnections EXCEPT ![t.roomId] = NoConn]
  /\ cleanupTimers' = [cleanupTimers EXCEPT ![t.roomId] = "none"]
  /\ IF cleanupTimers[t.roomId] = "armed"
     THEN /\ orphanTimers[t.roomId] < MaxOrphans
          /\ orphanTimers' = [orphanTimers EXCEPT ![t.roomId] = @ + 1]
     ELSE UNCHANGED orphanTimers
  /\ tasks' = Finish(t)
  /\ out' = {}
  /\ UNCHANGED <<conn, connectionsByIp, wsConnections, sessions, peers, rooms,
                 roomMembers, minted, messageRates, now, clientVars>>

\* -------------------------------------------------------------- leave-room
\* if (peer && peer.roomId) await storage.getRoom(peer.roomId)
LeaveRoomStart(t) ==
  /\ t.kind = "msg" /\ t.pc = "m2" /\ t.type = "leave-room"
  /\ tasks' = IF t.peer.exists /\ t.peer.roomId # NoRoom
              THEN Replace(t, [t EXCEPT !.pc = "l1", !.roomId = t.peer.roomId,
                                        !.room = getRoom(t.peer.roomId)])
              ELSE Finish(t)
  /\ out' = {}
  /\ UNCHANGED <<conn, connectionsByIp, wsConnections, hostWsConnections,
                 cleanupTimers, orphanTimers, sessions, peers, rooms, roomMembers,
                 minted, messageRates, now, clientVars>>

\* host: await getRoomMembers; member: await removeRoomMember;
\* no room: await setPeer(peerId, {...peer, roomId: null})
LeaveRoomRoom(t) ==
  /\ t.kind = "msg" /\ t.pc = "l1"
  /\ LET p == conn[t.conn].peerId
     IN IF t.room.exists
        THEN IF t.room.hostPeerId = p
             THEN /\ tasks' = Replace(t, [t EXCEPT !.pc = "l2",
                                          !.members = getRoomMembers(t.roomId)])
                  /\ UNCHANGED <<roomMembers, peers>>
             ELSE /\ roomMembers' = removeRoomMember(roomMembers, t.roomId, p)
                  /\ tasks' = Replace(t, [t EXCEPT !.pc = "l4"])
                  /\ UNCHANGED peers
        ELSE /\ peers' = setPeer(peers, p, NoRoom, t.peer.ip)
             /\ tasks' = Replace(t, [t EXCEPT !.pc = "l5"])
             /\ UNCHANGED roomMembers
  /\ out' = {}
  /\ UNCHANGED <<conn, connectionsByIp, wsConnections, hostWsConnections,
                 cleanupTimers, orphanTimers, sessions, rooms, minted,
                 messageRates, now, clientVars>>

\* host-disconnected to every member; await setRoom(roomId, {hostPeerId: null})
LeaveRoomNotify(t) ==
  /\ t.kind = "msg" /\ t.pc = "l2"
  /\ out' = notifyMembers(t.members, "host-disconnected", t.roomId, NoPeer)
  /\ rooms' = setRoom(rooms, t.roomId, NoPeer)
  /\ tasks' = Replace(t, [t EXCEPT !.pc = "l3"])
  /\ UNCHANGED <<conn, connectionsByIp, wsConnections, hostWsConnections,
                 cleanupTimers, orphanTimers, sessions, peers, roomMembers, minted,
                 messageRates, now, clientVars>>

\* hostWsConnections.delete; scheduleRoomCleanup(roomId) without await;
\* await setPeer(peerId, {...peer, roomId: null})
LeaveRoomSchedule(t) ==
  /\ t.kind = "msg" /\ t.pc = "l3"
  /\ hostWsConnections' = [hostWsConnections EXCEPT ![t.roomId] = NoConn]
  /\ peers' = setPeer(peers, conn[t.conn].peerId, NoRoom, t.peer.ip)
  /\ tasks' = Replace(t, [t EXCEPT !.pc = "l5"]) (+) SetToBag({scheduleRoomCleanup(t.roomId)})
  /\ out' = {}
  /\ UNCHANGED <<conn, connectionsByIp, wsConnections, cleanupTimers, orphanTimers,
                 sessions, rooms, roomMembers, minted, messageRates, now, clientVars>>

\* member: after removeRoomMember, await setPeer(peerId, {...peer, roomId: null})
LeaveRoomPeer(t) ==
  /\ t.kind = "msg" /\ t.pc = "l4"
  /\ peers' = setPeer(peers, conn[t.conn].peerId, NoRoom, t.peer.ip)
  /\ tasks' = Replace(t, [t EXCEPT !.pc = "l5"])
  /\ out' = {}
  /\ UNCHANGED <<conn, connectionsByIp, wsConnections, hostWsConnections,
                 cleanupTimers, orphanTimers, sessions, rooms, roomMembers, minted,
                 messageRates, now, clientVars>>

\* await storage.updateSessionRoom(sessionToken, null)
LeaveRoomSession(t) ==
  /\ t.kind = "msg" /\ t.pc = "l5"
  /\ sessions' = updateSessionRoom(sessions, conn[t.conn].token, NoRoom)
  /\ tasks' = Finish(t)
  /\ out' = {}
  /\ UNCHANGED <<conn, connectionsByIp, wsConnections, hostWsConnections,
                 cleanupTimers, orphanTimers, peers, rooms, roomMembers, minted,
                 messageRates, now, clientVars>>

\* ------------------------------------------------------------ ws.on('close')
\* the transport is gone.  Before hello: untrackConnection(ip, ws).
\* Otherwise const peer = await storage.getPeer(peerId)
Close(B, w) ==
  /\ ~Blocked(B)
  /\ conn[w].state \in {"open", "closing"}
  /\ conn' = [conn EXCEPT ![w].state = "closed"]
  /\ IF conn[w].peerId = NoPeer
     THEN /\ connectionsByIp' = untrackConnection(connectionsByIp, IpOf(w), w)
          /\ UNCHANGED tasks
     ELSE /\ tasks' = Spawn([Task("close", w, "", NoRoom, "c1")
                               EXCEPT !.peer = getPeer(conn[w].peerId)])
          /\ UNCHANGED connectionsByIp
  /\ out' = {}
  /\ UNCHANGED <<wsConnections, hostWsConnections, cleanupTimers, orphanTimers,
                 sessions, peers, rooms, roomMembers, minted, messageRates, now, clientVars>>

\* the end of the close handler: messageRates.delete(peerId);
\* wsConnections.delete(peerId);
\* await storage.deletePeer(peerId)
CloseFinal(t) ==
  /\ messageRates' = [messageRates EXCEPT ![conn[t.conn].peerId] = NoRate]
  /\ wsConnections' = [wsConnections EXCEPT ![conn[t.conn].peerId] = NoConn]
  /\ peers' = deletePeer(peers, conn[t.conn].peerId)

\* if (peer) untrackConnection(peer.ip, ws); if (peer.roomId) await getRoom
ClosePeer(t) ==
  /\ t.kind = "close" /\ t.pc = "c1"
  /\ connectionsByIp' = IF t.peer.exists
                        THEN untrackConnection(connectionsByIp, t.peer.ip, t.conn)
                        ELSE connectionsByIp
  /\ IF t.peer.exists /\ t.peer.roomId # NoRoom
     THEN /\ tasks' = Replace(t, [t EXCEPT !.pc = "c2", !.roomId = t.peer.roomId,
                                           !.room = getRoom(t.peer.roomId)])
          /\ UNCHANGED <<wsConnections, peers, messageRates>>
     ELSE /\ CloseFinal(t)
          /\ tasks' = Finish(t)
  /\ out' = {}
  /\ UNCHANGED <<conn, hostWsConnections, cleanupTimers, orphanTimers, sessions,
                 rooms, roomMembers, minted, now, clientVars>>

\* if (room && room.hostPeerId === peerId) await getRoomMembers
CloseRoom(t) ==
  /\ t.kind = "close" /\ t.pc = "c2"
  /\ IF t.room.exists /\ t.room.hostPeerId = conn[t.conn].peerId
     THEN /\ tasks' = Replace(t, [t EXCEPT !.pc = "c3",
                                           !.members = getRoomMembers(t.roomId)])
          /\ UNCHANGED <<wsConnections, peers, messageRates>>
     ELSE /\ CloseFinal(t)
          /\ tasks' = Finish(t)
  /\ out' = {}
  /\ UNCHANGED <<conn, connectionsByIp, hostWsConnections, cleanupTimers,
                 orphanTimers, sessions, rooms, roomMembers, minted, now, clientVars>>

\* host-disconnected to every member; await setRoom(roomId, {hostPeerId: null})
CloseNotify(t) ==
  /\ t.kind = "close" /\ t.pc = "c3"
  /\ out' = notifyMembers(t.members, "host-disconnected", t.roomId, NoPeer)
  /\ rooms' = setRoom(rooms, t.roomId, NoPeer)
  /\ tasks' = Replace(t, [t EXCEPT !.pc = "c4"])
  /\ UNCHANGED <<conn, connectionsByIp, wsConnections, hostWsConnections,
                 cleanupTimers, orphanTimers, sessions, peers, roomMembers, minted,
                 messageRates, now, clientVars>>

\* hostWsConnections.delete; scheduleRoomCleanup(roomId) without await; the end
CloseSchedule(t) ==
  /\ t.kind = "close" /\ t.pc = "c4"
  /\ hostWsConnections' = [hostWsConnections EXCEPT ![t.roomId] = NoConn]
  /\ CloseFinal(t)
  /\ tasks' = Finish(t) (+) SetToBag({scheduleRoomCleanup(t.roomId)})
  /\ out' = {}
  /\ UNCHANGED <<conn, connectionsByIp, cleanupTimers, orphanTimers, sessions,
                 rooms, roomMembers, minted, now, clientVars>>

\* ------------------------------------------------------------------- time
\* SESSION_EXPIRY_SECONDS pass without a message on the session's connection.
\* Only the age of the session is followed here: its lastSeen moves back
\* instead of the clock moving forward.
SessionExpires(tok) ==
  /\ sessionIsFresh(sessions[tok])
  /\ sessions' = [sessions EXCEPT ![tok].lastSeen = now - SessionExpiry]
  /\ out' = {}
  /\ UNCHANGED <<conn, connectionsByIp, wsConnections, hostWsConnections,
                 cleanupTimers, orphanTimers, peers, rooms, roomMembers, minted,
                 tasks, messageRates, now, clientVars>>

\* ------------------------------------------------------------ step groups
HelloSteps ==
  \/ \E t \in Running : HelloSession(t)
  \/ \E t \in Running : HelloRegister(t)
  \/ \E t \in Running : HelloReply(t)
  \/ \E t \in Running : HelloRoom(t)
  \/ \E t \in Running : HelloMember(t)
  \/ \E t \in Running : HelloHost(t)
  \/ \E t \in Running : HelloHostWs(t)
  \/ \E t \in Running : HelloNotify(t)
  \/ \E t \in Running : HelloNewRegister(t)
  \/ \E t \in Running : HelloNewReply(t)


QuerySteps ==
  \/ \E t \in Running : QueryRoomStart(t)
  \/ \E t \in Running : QueryRoomReply(t)


RegisterSteps ==
  \/ \E t \in Running : RegisterHostStart(t)
  \/ \E t \in Running : RegisterHostCheck(t)
  \/ \E t \in Running : RegisterHostDecide(t)
  \/ \E t \in Running : RegisterHostWs(t)
  \/ \E t \in Running : RegisterHostSession(t)
  \/ \E t \in Running : RegisterHostReply(t)


ClaimSteps ==
  \/ \E t \in Running : ClaimHostStart(t)
  \/ \E t \in Running : ClaimHostCheck(t)
  \/ \E t \in Running : ClaimHostDecide(t)
  \/ \E t \in Running : ClaimHostWs(t)
  \/ \E t \in Running : ClaimHostSession(t)
  \/ \E t \in Running : ClaimHostReply(t)


JoinSteps ==
  \/ \E t \in Running : JoinRoomStart(t)
  \/ \E t \in Running : JoinRoomCheck(t)
  \/ \E t \in Running : JoinRoomDecide(t)
  \/ \E t \in Running : JoinRoomMember(t)
  \/ \E t \in Running : JoinRoomSession(t)
  \/ \E t \in Running : JoinRoomReply(t)


LeaveSteps ==
  \/ \E t \in Running : LeaveRoomStart(t)
  \/ \E t \in Running : LeaveRoomRoom(t)
  \/ \E t \in Running : LeaveRoomNotify(t)
  \/ \E t \in Running : LeaveRoomSchedule(t)
  \/ \E t \in Running : LeaveRoomPeer(t)
  \/ \E t \in Running : LeaveRoomSession(t)


CloseSteps ==
  \/ \E t \in Running : ClosePeer(t)
  \/ \E t \in Running : CloseRoom(t)
  \/ \E t \in Running : CloseNotify(t)
  \/ \E t \in Running : CloseSchedule(t)


TimerSteps ==
  \/ \E t \in Running : ScheduleTimer(t)
  \/ \E t \in Running : TimerCheck(t)
  \/ \E t \in Running : TimerNotify(t)
  \/ \E t \in Running : TimerDelete(t)



\* ------------------------------------------------------------ event groups
\* An event is delivered only while no invocation of a kind in B (for a timer:
\* in BT) is in flight.  CS, TS and RS are the transports, tokens and rooms in use.
Kinds == {"msg", "close", "sched", "timer"}

\* connection, handshake, close and the cleanup timers
Lifecycle(B, BT, CS, TS, RS) ==
  \/ \E w \in CS : Connect(B, w)
  \/ \E w \in CS, tok \in TS : HelloStart(B, w, tok)
  \/ \E w \in CS : Close(B, w)
  \/ \E r \in RS : TimerFire(BT, r)
  \/ \E t \in Running : MsgPeer(t)
  \/ HelloSteps \/ CloseSteps \/ TimerSteps

\* register-host, claim-host and leave-room
HostOps(B, CS, RS) ==
  \/ \E w \in CS, r \in RS : MsgStart(B, w, "register-host", r)
  \/ \E w \in CS, r \in RS : MsgStart(B, w, "claim-host", r)
  \/ \E w \in CS : MsgStart(B, w, "leave-room", NoRoom)
  \/ RegisterSteps \/ ClaimSteps \/ LeaveSteps

\* join-room
JoinOps(B, CS, RS) ==
  \/ \E w \in CS, r \in RS : MsgStart(B, w, "join-room", r)
  \/ JoinSteps

\* a message before hello, a malformed token or room id, heartbeat, query-room,
\* an unrouted message type, and the passing of the session lifetime
OtherOps(B, CS, TS, RS) ==
  \/ \E w \in CS : RecvBeforeHello(B, w)
  \/ \E w \in CS : HelloStart(B, w, BadToken)
  \/ \E w \in CS, type \in {"heartbeat", "other"} : MsgStart(B, w, type, NoRoom)
  \/ \E w \in CS, r \in RS \cup {BadRoom} : MsgStart(B, w, "query-room", r)
  \/ \E w \in CS, type \in RoomMsgTypes : MsgStart(B, w, type, BadRoom)
  \/ \E t \in Running : IgnoreUnknown(t)
  \/ QuerySteps
  \/ \E tok \in TS : SessionExpires(tok)

\* --------------------------------------------------------------------- Next
\* every event is handled to completion before the next one is delivered
NextSeq ==
  \/ Lifecycle(Kinds, Kinds, Conns, Tokens, {"r1"})
  \/ HostOps(Kinds, Conns, {"r1"})
  \/ JoinOps(Kinds, Conns, {"r1"})
SeqSpec == Init /\ [][NextSeq]_vars

\* the same with two rooms and two transports
NextRooms ==
  \/ Lifecycle(Kinds, Kinds, {"w1", "w2"}, Tokens, Rooms)
  \/ HostOps(Kinds, {"w1", "w2"}, Rooms)
  \/ JoinOps(Kinds, {"w1", "w2"}, Rooms)
RoomSpec == Init /\ [][NextRooms]_vars

\* messages, closes and the scheduling they start are handled one at a time;
\* the cleanup timer's callback interleaves with them at every await
Handlers == {"msg", "close", "sched"}
Next ==
  \/ Lifecycle(Handlers, {"timer"}, {"w1", "w2"}, Tokens, {"r1"})
  \/ HostOps(Handlers, {"w1", "w2"}, {"r1"})
  \/ \E r \in {"r1"} : OrphanTimerFire({"timer"}, r)
  \/ OtherOps(Handlers, {"w1", "w2"}, Tokens, {"r1"})
Spec == Init /\ [][Next]_vars

\* ------------------------------------------------ overlapping handlers
\* ws.on('message') and ws.on('close') are async callbacks of an event emitter:
\* the emitter does not wait for the promise of the previous invocation, so the
\* next event of a transport is delivered while the previous handler is at one
\* of its awaits.  At most MaxInflight handlers are in flight.
MaxInflight == 2

\* only handlers of messages of transport w are in flight, fewer than MaxInflight
HandlerAwaits(w) ==
  /\ Running # {}
  /\ \A t \in Running : t.kind = "msg" /\ t.conn = w /\ t.type # "hello"
  /\ BagCardinality(tasks) < MaxInflight

\* the next message of w arrives while the handler of its previous one awaits
NextMessage(w, type, r) == HandlerAwaits(w) /\ MsgStart({}, w, type, r)

\* w closes while the handler of its last message awaits
CloseDuringMessage(w) == HandlerAwaits(w) /\ Close({}, w)

\* events of different transports are handled one at a time; the events of one
\* transport overlap
NextConn ==
  \/ Lifecycle(Kinds, Kinds, {"w1", "w2"}, Tokens, {"r1"})
  \/ \E w \in {"w1", "w2"} : MsgStart(Kinds, w, "register-host", "r1")
  \/ \E w \in {"w1", "w2"} : MsgStart(Kinds, w, "leave-room", NoRoom)
  \/ RegisterSteps \/ LeaveSteps
  \/ JoinOps(Kinds, {"w1", "w2"}, {"r1"})
  \/ \E w \in {"w1", "w2"} : NextMessage(w, "leave-room", NoRoom)
  \/ \E w \in {"w1", "w2"} : CloseDuringMessage(w)
ConnSpec == Init /\ [][NextConn]_vars

\* scheduleRoomCleanup is called without await: while it is suspended at its
\* getRoom the handler that called it finishes and the next event is delivered
ScheduleAwaits ==
  /\ Running # {}
  /\ \A t \in Running : t.kind = "sched"
  /\ BagCardinality(tasks) < MaxInflight

\* events are handled one at a time; a suspended scheduleRoomCleanup does not
\* hold back a hello, a register-host or a claim-host
NextSched ==
  \/ Lifecycle(Kinds, Kinds, {"w1", "w2"}, Tokens, {"r1"})
  \/ HostOps(Kinds, {"w1", "w2"}, {"r1"})
  \/ JoinOps(Kinds, {"w1", "w2"}, {"r1"})
  \/ \E w \in {"w1", "w2"}, tok \in Tokens : ScheduleAwaits /\ HelloStart({}, w, tok)
  \/ \E w \in {"w1", "w2"} : ScheduleAwaits /\ MsgStart({}, w, "register-host", "r1")
  \/ \E w \in {"w1", "w2"} : ScheduleAwaits /\ MsgStart({}, w, "claim-host", "r1")
SchedSpec == Init /\ [][NextSched]_vars

\* two rooms and two transports, with query-room; every event is handled to
\* completion
NextQuery ==
  \/ NextRooms
  \/ \E w \in {"w1", "w2"}, r \in Rooms : MsgStart(Kinds, w, "query-room", r)
  \/ QuerySteps
QuerySpec == Init /\ [][NextQuery]_vars

\* only hello handlers are in flight, fewer than MaxInflight
HelloAwaits ==
  /\ Running # {}
  /\ \A t \in Running : t.kind = "msg" /\ t.type = "hello"
  /\ BagCardinality(tasks) < MaxInflight

\* events are handled one at a time, except that a hello is delivered, on the
\* same or on another transport, while the handler of an earlier hello awaits
NextHello ==
  \/ Lifecycle(Kinds, Kinds, {"w1", "w2"}, Tokens, {"r1"})
  \/ HostOps(Kinds, {"w1", "w2"}, {"r1"})
  \/ JoinOps(Kinds, {"w1", "w2"}, {"r1"})
  \/ \E w \in {"w1", "w2"}, tok \in Tokens : HelloAwaits /\ HelloStart({}, w, tok)
HelloSpec == Init /\ [][NextHello]_vars

\* only claim-host handlers are in flight, fewer than MaxInflight
ClaimAwaits ==
  /\ Running # {}
  /\ \A t \in Running : t.kind = "msg" /\ t.type = "claim-host"
  /\ BagCardinality(tasks) < MaxInflight

\* events are handled one at a time, except that a claim-host is delivered
\* while the handler of an earlier claim-host awaits
NextClaim ==
  \/ Lifecycle(Kinds, Kinds, {"w1", "w2"}, Tokens, {"r1"})
  \/ HostOps(Kinds, {"w1", "w2"}, {"r1"})
  \/ JoinOps(Kinds, {"w1", "w2"}, {"r1"})
  \/ \E w \in {"w1", "w2"} : ClaimAwaits /\ MsgStart({}, w, "claim-host", "r1")
ClaimSpec == Init /\ [][NextClaim]_vars

\* one token on two transports, with the rate check and the clock; every
\* event is handled to completion
NextRate ==
  \/ Lifecycle(Kinds, Kinds, {"w1", "w2"}, {"t1"}, {"r1"})
  \/ \E w \in {"w1", "w2"} : RatedMsgStart(Kinds, w, "register-host", "r1")
  \/ \E w \in {"w1", "w2"} : RatedMsgStart(Kinds, w, "heartbeat", NoRoom)
  \/ RegisterSteps
  \/ Tick(Kinds)
RateSpec == Init /\ [][NextRate]_vars

\* ------------------------------------------------ background transports
\* Transports of address ip1 that connect and close without ever sending a
\* message.  They arrive in order and the last one closes first.
BackgroundNames == <<"b1", "b2", "b3", "b4", "b5", "b6", "b7", "b8", "b9", "b10">>
Background == {BackgroundNames[k] : k \in 1..maxConnectionsPerIp}

\* wss.on('connection') for the next background transport: admission by
\* source address, as in Connect
BackgroundConnect(B) ==
  /\ ~Blocked(B)
  /\ \E k \in 1..maxConnectionsPerIp :
       /\ BackgroundNames[k] \notin connectionsByIp["ip1"]
       /\ \A j \in 1..(k - 1) : BackgroundNames[j] \in connectionsByIp["ip1"]
       /\ IF ~checkConnectionLimit("ip1")
          THEN /\ out' = {Msg(BackgroundNames[k], "error", NoRoom, NoPeer, "rate-limit")}
               /\ UNCHANGED connectionsByIp
          ELSE /\ connectionsByIp' =
                    trackConnection(connectionsByIp, "ip1", BackgroundNames[k])
               /\ out' = {}
  /\ UNCHANGED <<conn, wsConnections, hostWsConnections, cleanupTimers, orphanTimers,
                 sessions, peers, rooms, roomMembers, minted, tasks, messageRates,
                 now, clientVars>>

\* ws.on('close') of a background transport: if (!peerId) untrackConnection
BackgroundClose(B) ==
  /\ ~Blocked(B)
  /\ \E k \in 1..maxConnectionsPerIp :
       /\ BackgroundNames[k] \in connectionsByIp["ip1"]
       /\ \A j \in (k + 1)..maxConnectionsPerIp :
            BackgroundNames[j] \notin connectionsByIp["ip1"]
       /\ connectionsByIp' = untrackConnection(connectionsByIp, "ip1", BackgroundNames[k])
  /\ out' = {}
  /\ UNCHANGED <<conn, wsConnections, hostWsConnections, cleanupTimers, orphanTimers,
                 sessions, peers, rooms, roomMembers, minted, tasks, messageRates,
                 now, clientVars>>

\* the lifecycle of three transports, register-host, and the relay of offers,
\* answers and candidates; every event is handled to completion
NextRelay ==
  \/ Lifecycle(Kinds, Kinds, Conns, Tokens, {"r1"})
  \/ \E w \in Conns : MsgStart(Kinds, w, "register-host", "r1")
  \/ RegisterSteps
  \/ \E w \in Conns, type \in RelayTypes, target, from \in PeerIds \cup {NoPeer} :
       RelayMsgStart(Kinds, w, type, target, from)
  \/ \E t \in Running : RelayCheck(t)
  \/ \E t \in Running : RelaySend(t)
RelaySpec == Init /\ [][NextRelay]_vars

\* the lifecycle of three transports with one token and register-host, hellos
\* with a malformed token and messages sent before hello; every event is
\* handled to completion
NextHandshake ==
  \/ Lifecycle(Kinds, Kinds, Conns, {"t1"}, {"r1"})
  \/ \E w \in Conns : MsgStart(Kinds, w, "register-host", "r1")
  \/ RegisterSteps
  \/ \E w \in Conns : HelloStart(Kinds, w, BadToken)
  \/ \E w \in Conns : RecvBeforeHello(Kinds, w)
HandshakeSpec == Init /\ [][NextHandshake]_vars

\* ------------------------------------------------------- backend failure
\* A backend call of a message or close handler rejects.  The handlers are
\* async callbacks without try/catch and the process registers no
\* unhandledRejection handler, so the rejection is unhandled: the runtime either
\* only reports it, and the handler is abandoned where it was, or it ends the
\* process, and every transport, registry and timer goes with it.  The backend
\* keeps its records.
BackendFails(t) ==
  /\ t.kind \in {"msg", "close"}
  /\ out' = {}
  /\ \/ /\ tasks' = Finish(t)
        /\ UNCHANGED <<conn, connectionsByIp, wsConnections, hostWsConnections,
                       cleanupTimers, messageRates>>
     \/ /\ tasks' = EmptyBag
        /\ conn' = [w \in Conns |-> IF conn[w].state = "new" THEN conn[w]
                                    ELSE [conn[w] EXCEPT !.state = "lost"]]
        /\ connectionsByIp' = [ip \in Ips |-> {}]
        /\ wsConnections' = [p \in PeerIds |-> NoConn]
        /\ hostWsConnections' = [r \in Rooms |-> NoConn]
        /\ cleanupTimers' = [r \in Rooms |-> "none"]
        /\ messageRates' = [p \in PeerIds |-> NoRate]
  /\ UNCHANGED <<orphanTimers, sessions, peers, rooms, roomMembers, minted, now, clientVars>>

\* two transports, two tokens, register-host, and backend calls that may fail;
\* every event is handled to completion
NextFail ==
  \/ Lifecycle(Kinds, Kinds, {"w1", "w2"}, Tokens, {"r1"})
  \/ \E w \in {"w1", "w2"} : MsgStart(Kinds, w, "register-host", "r1")
  \/ RegisterSteps
  \/ \E t \in Running : BackendFails(t)
FailSpec == Init /\ [][NextFail]_vars

\* two transports presenting one token and register-host for two rooms, every
\* event handled to completion
NextFair ==
  \/ Lifecycle(Kinds, Kinds, {"w1", "w2"}, {"t1"}, Rooms)
  \/ \E w \in {"w1", "w2"}, r \in Rooms : MsgStart(Kinds, w, "register-host", r)
  \/ RegisterSteps

\* what the process does by itself: the steps of handlers and callbacks
Progress == HelloSteps \/ RegisterSteps \/ CloseSteps \/ TimerSteps

\* a handler or callback that can continue does continue, and an armed timer
\* fires, however often messages arrive in between
FairSpec ==
  /\ Init /\ [][NextFair]_vars
  /\ WF_vars(Progress)
  /\ \A r \in Rooms : SF_vars(TimerFire(Kinds, r))

\* one client hosts and another joins: a transport that presented token t1
\* sends register-host, a transport that presented token t2 sends join-room;
\* every event is handled to completion
NextMember ==
  \/ Lifecycle(Kinds, Kinds, Conns, Tokens, {"r1"})
  \/ \E w \in Conns : conn[w].token = "t1" /\ MsgStart(Kinds, w, "register-host", "r1")
  \/ RegisterSteps
  \/ \E w \in Conns : conn[w].token = "t2" /\ MsgStart(Kinds, w, "join-room", "r1")
  \/ JoinSteps
MemberSpec == Init /\ [][NextMember]_vars

\* ------------------------------------------------------ SignalingClient
serverVars == <<conn, connectionsByIp, wsConnections, hostWsConnections,
                cleanupTimers, orphanTimers, sessions, peers, rooms, roomMembers,
                minted, tasks, out, messageRates, now>>

Min(a, b) == IF a < b THEN a ELSE b
One(x) == SetToBag({x})

\* Math.min(1000 * Math.pow(2, this.reconnectAttempts), 30000)
reconnectDelay(attempts) == Min(1000 * 2^attempts, 30000)

\* ws.close() of the WebSocket API: a socket that is connecting or open starts
\* closing and its close event follows; on any other socket it does nothing
closeSocket(sock) ==
  IF sock.state \in {"connecting", "open"} THEN [sock EXCEPT !.state = "closing"]
  ELSE sock

\* a socket this.ws ceases to refer to: it is still heard from if its close
\* event or its connection timeout is to come
Detach(s) ==
  IF s.ws.state \in {"connecting", "open", "closing"} \/ s.ws.timeout
  THEN s.detached (+) One(s.ws)
  ELSE s.detached

\* connect(): the pending promise is returned if there is one; otherwise a
\* WebSocket is constructed, this.ws refers to it and the timeout is armed
connect(s) ==
  IF s.connectPromise THEN s
  ELSE [s EXCEPT !.connectPromise = TRUE, !.ws = NewSocket, !.detached = Detach(s)]

\* attemptReconnect(): gives up at maxReconnectAttempts, otherwise counts the
\* attempt and arms a timer for connect()
attemptReconnect(s) ==
  IF s.reconnectAttempts >= maxReconnectAttempts THEN s
  ELSE [s EXCEPT !.reconnectAttempts = @ + 1,
                 !.reconnectTimers = @ (+) One(reconnectDelay(s.reconnectAttempts + 1))]

\* the sockets whose handlers may run: the one this.ws refers to and the
\* detached ones
Sockets ==
  {[held |-> TRUE, sock |-> signaling.ws]}
    \cup {[held |-> FALSE, sock |-> d] : d \in BagToSet(signaling.detached)}

\* the client after a handler of socket h has left the socket as sock2
WithSocket(h, sock2) ==
  IF h.held THEN [signaling EXCEPT !.ws = sock2]
  ELSE [signaling EXCEPT !.detached =
          IF sock2.state = "closed" THEN @ (-) One(h.sock)
          ELSE (@ (-) One(h.sock)) (+) One(sock2)]

\* connect() may construct a socket: the bound on detached sockets allows it
MayConstruct ==
  BagCardinality(Detach(signaling)) <= MaxDetached

\* the application calls connect()
AppConnect ==
  /\ ~signaling.connectPromise
  /\ MayConstruct
  /\ signaling' = connect(signaling)
  /\ observed' = [observed EXCEPT !.disconnected = FALSE]
  /\ UNCHANGED <<serverVars, webrtc>>

\* ws.onopen of a socket
onopen(h) ==
  /\ h.sock.state = "connecting"
  /\ signaling' = [WithSocket(h, [h.sock EXCEPT !.state = "open"])
                     EXCEPT !.reconnectAttempts = 0]
  /\ UNCHANGED <<serverVars, webrtc, observed>>

\* ws.onmessage of a socket with the server's peer-id message, which the
\* server sends once on a transport
onmessagePeerId(h) ==
  /\ h.sock.state = "open"
  /\ ~h.sock.greeted
  /\ signaling' = [WithSocket(h, [h.sock EXCEPT !.greeted = TRUE, !.timeout = FALSE])
                     EXCEPT !.peerId = TRUE, !.connectPromise = FALSE]
  /\ observed' = [observed EXCEPT !.unanswered = 0]
  /\ UNCHANGED <<serverVars, webrtc>>

\* ws.onclose of a socket: the server or the network ended the connection, or
\* a close() of the client completes.  (ws.onerror, which precedes the close
\* event of a failed connection, clears the same timeout and promise.)
onclose(h) ==
  /\ h.sock.state \in {"connecting", "open", "closing"}
  /\ BagCardinality(signaling.reconnectTimers) < MaxTimers
  /\ observed.unanswered <= maxReconnectAttempts
  /\ signaling' = attemptReconnect([WithSocket(h, ClosedSocket)
                                      EXCEPT !.connectPromise = FALSE,
                                             !.peerId = FALSE])
  /\ observed' = IF signaling.reconnectAttempts >= maxReconnectAttempts THEN observed
                 ELSE [observed EXCEPT !.unanswered = @ + 1]
  /\ UNCHANGED <<serverVars, webrtc>>

\* the connection timeout armed by the connect() that constructed a socket:
\* it closes the socket this.ws refers to when it fires
connectionTimeout(h) ==
  /\ h.sock.timeout
  /\ LET s == WithSocket(h, [h.sock EXCEPT !.timeout = FALSE])
     IN signaling' = [s EXCEPT !.ws = closeSocket(s.ws), !.connectPromise = FALSE]
  /\ UNCHANGED <<serverVars, webrtc, observed>>

\* a timer armed by attemptReconnect fires and calls connect()
ReconnectTimer(delay) ==
  /\ signaling.connectPromise \/ MayConstruct
  /\ signaling' = connect([signaling EXCEPT !.reconnectTimers = @ (-) One(delay)])
  /\ UNCHANGED <<serverVars, webrtc, observed>>

\* the application calls disconnect()
disconnect ==
  /\ BagCardinality(Detach([signaling EXCEPT !.ws = closeSocket(signaling.ws)]))
       <= MaxDetached
  /\ LET s == [signaling EXCEPT !.ws = closeSocket(signaling.ws)]
     IN signaling' = [s EXCEPT !.ws = NoSocket, !.detached = Detach(s),
                               !.peerId = FALSE, !.connectPromise = FALSE]
  /\ observed' = [observed EXCEPT !.disconnected = TRUE]
  /\ UNCHANGED <<serverVars, webrtc>>

\* the application calls resetReconnection()
resetReconnection ==
  /\ signaling' = [signaling EXCEPT !.reconnectAttempts = maxReconnectAttempts]
  /\ UNCHANGED <<serverVars, webrtc, observed>>

NextSignal ==
  \/ AppConnect
  \/ \E h \in Sockets : onopen(h)
  \/ \E h \in Sockets : onmessagePeerId(h)
  \/ \E h \in Sockets : onclose(h)
  \/ \E h \in Sockets : connectionTimeout(h)
  \/ \E delay \in BagToSet(signaling.reconnectTimers) : ReconnectTimer(delay)
  \/ disconnect
  \/ resetReconnection

SignalSpec == Init /\ [][NextSignal]_vars

\* --------------------------------------------------------- WebRTCManager
\* createPeerConnection(peerId, initiator), entered with no connection for
\* the peer: the candidate buffer is set to [] and the connection is created
createPeerConnection(m, initiator) ==
  [m EXCEPT !.pending = <<>>, !.pc = "new", !.initiator = initiator,
            !.added = <<>>]

\* the application calls connectToPeer(peerId)
connectToPeer ==
  /\ webrtc.pc = "none"
  /\ webrtc.handler = "idle"
  /\ webrtc' = createPeerConnection(webrtc, TRUE)
  /\ UNCHANGED <<serverVars, signaling, observed>>

\* handleOffer up to its await of setRemoteDescription
handleOffer ==
  /\ webrtc.pc = "none"
  /\ webrtc.handler = "idle"
  /\ webrtc' = [createPeerConnection(webrtc, FALSE) EXCEPT !.handler = "setting"]
  /\ UNCHANGED <<serverVars, signaling, observed>>

\* handleAnswer up to its await of setRemoteDescription
handleAnswer ==
  /\ webrtc.pc = "new"
  /\ webrtc.initiator
  /\ webrtc.handler = "idle"
  /\ webrtc' = [webrtc EXCEPT !.handler = "setting"]
  /\ UNCHANGED <<serverVars, signaling, observed>>

\* setRemoteDescription resolves and applyPendingCandidates starts: it returns
\* on an empty buffer and otherwise passes the first candidate on
applyPendingCandidates ==
  /\ webrtc.handler = "setting"
  /\ webrtc' = IF webrtc.pending = <<>>
               THEN [webrtc EXCEPT !.pc = "remote", !.handler = "idle"]
               ELSE [webrtc EXCEPT !.pc = "remote", !.handler = "applying",
                                   !.added = Append(@, webrtc.pending[1]),
                                   !.applied = 1]
  /\ UNCHANGED <<serverVars, signaling, observed>>

\* the loop of applyPendingCandidates after an await of addIceCandidate: the
\* next candidate, or the buffer is set to [] and the handler returns
applyNextCandidate ==
  /\ webrtc.handler = "applying"
  /\ webrtc' = IF webrtc.applied < Len(webrtc.pending)
               THEN [webrtc EXCEPT !.added = Append(@, webrtc.pending[webrtc.applied + 1]),
                                   !.applied = @ + 1]
               ELSE [webrtc EXCEPT !.pending = <<>>, !.applied = 0,
                                   !.handler = "idle"]
  /\ UNCHANGED <<serverVars, signaling, observed>>

\* handleIceCandidate: the next candidate of the remote peer arrives; it is
\* buffered while there is no connection or no remote description, and passed
\* to addIceCandidate otherwise
handleIceCandidate ==
  /\ webrtc.received < MaxCandidates
  /\ LET candidate == webrtc.received + 1
     IN IF webrtc.pc # "remote"
        THEN /\ webrtc' = [webrtc EXCEPT !.pending = Append(@, candidate),
                                         !.received = candidate]
             /\ observed' = [observed EXCEPT !.early = Append(@, candidate)]
        ELSE /\ webrtc' = [webrtc EXCEPT !.added = Append(@, candidate),
                                         !.received = candidate]
             /\ UNCHANGED observed
  /\ UNCHANGED <<serverVars, signaling>>

\* closePeerConnection: the connection timeout fires or the connection fails
closePeerConnection ==
  /\ webrtc.pc # "none"
  /\ webrtc.handler = "idle"
  /\ webrtc' = [webrtc EXCEPT !.pc = "none", !.initiator = FALSE,
                              !.pending = <<>>, !.added = <<>>]
  /\ observed' = [observed EXCEPT !.early = <<>>]
  /\ UNCHANGED <<serverVars, signaling>>

NextRtc ==
  \/ connectToPeer
  \/ handleOffer
  \/ handleAnswer
  \/ applyPendingCandidates
  \/ applyNextCandidate
  \/ handleIceCandidate
  \/ closePeerConnection

RtcSpec == Init /\ [][NextRtc]_vars

\* three transports presenting one token, register-host, and the background
\* transports of ip1; every event is handled to completion
NextCap ==
  \/ Lifecycle(Kinds, Kinds, Conns, {"t1"}, {"r1"})
  \/ \E w \in Conns : MsgStart(Kinds, w, "register-host", "r1")
  \/ RegisterSteps
  \/ BackgroundConnect(Kinds)
  \/ BackgroundClose(Kinds)
CapSpec == Init /\ [][NextCap]_vars

\* ================================================================== claims
\* live in the transport registry
Live(p) == p \in PeerIds /\ wsConnections[p] # NoConn
\* the identity whose transport hostWsConnections holds for a room
HostWsOwner(r) ==
  IF hostWsConnections[r] = NoConn THEN NoPeer ELSE conn[hostWsConnections[r]].peerId

\* C1 (state part): the two host records of a room, rooms[r].hostPeerId and the
\* owner of hostWsConnections[r], never name two distinct identities that are
\* both live in the registry.
HostRecordsAgree ==
  \A r \in Rooms :
    (rooms[r].exists /\ Live(rooms[r].hostPeerId) /\ Live(HostWsOwner(r)))
      => HostWsOwner(r) = rooms[r].hostPeerId

\* C1 (step part): the host record of a room never passes from an identity that
\* is live in the registry to a different live identity.
NoLiveDisplacement ==
  \A r \in Rooms :
    (/\ rooms[r].exists /\ rooms'[r].exists
     /\ rooms[r].hostPeerId # NoPeer /\ rooms'[r].hostPeerId # NoPeer
     /\ rooms'[r].hostPeerId # rooms[r].hostPeerId
     /\ wsConnections'[rooms'[r].hostPeerId] # NoConn)
      => ~Live(rooms[r].hostPeerId)

\* C1: when events are handled one after the other, no room has two distinct
\* identities recorded as its host while both are live in the registry: the
\* host records agree, and a live host is never replaced by another identity.
C1_SingleLiveHost == []HostRecordsAgree /\ [][NoLiveDisplacement]_vars

\* C1 witness: a second live identity asked for a room whose host is live and
\* was refused.
C1_Witness ==
  \E m \in out :
    /\ m.type \in {"register-host-failed", "claim-host-failed"}
    /\ m.roomId \in Rooms
    /\ rooms[m.roomId].exists
    /\ Live(rooms[m.roomId].hostPeerId)
    /\ Live(conn[m.to].peerId)
    /\ conn[m.to].peerId # rooms[m.roomId].hostPeerId

\* ---------------------------------------------------------------------- C2
\* reachable: the registry holds an OPEN transport for the identity
Reachable(p) == Live(p) /\ conn[wsConnections[p]].state = "open"
\* a cleanup of room r is pending or running
CleanupPending(r) ==
  \/ cleanupTimers[r] = "armed"
  \/ orphanTimers[r] > 0
  \/ \E t \in Running : t.kind \in {"sched", "timer"} /\ t.roomId = r

\* C2 (state part): a claim-host-success for room r leaves the claimer recorded
\* as r's host with no cleanup of r pending; a claim-host is refused for an
\* active host only when r's recorded host is live.
ClaimTakesOver ==
  \A m \in out :
    /\ m.type = "claim-host-success" =>
         /\ rooms[m.roomId].exists
         /\ rooms[m.roomId].hostPeerId = conn[m.to].peerId
         /\ cleanupTimers[m.roomId] = "none"
         /\ ~CleanupPending(m.roomId)
    /\ (m.type = "claim-host-failed" /\ m.info = "Room already has active host") =>
         /\ rooms[m.roomId].exists
         /\ hasPeer(rooms[m.roomId].hostPeerId)

\* C2 (step part): room-closed is sent only for a room that has no host
ClosedOnlyHostless ==
  \A m \in out' :
    m.type = "room-closed" =>
      rooms[m.roomId].exists /\ rooms[m.roomId].hostPeerId = NoPeer

Fires(r) == cleanupTimers[r] = "armed" /\ cleanupTimers'[r] = "spent"
\* the record of room r is deleted in this step
Deleted(r) == rooms[r].exists /\ ~rooms'[r].exists
\* a timer callback ends at its re-check in this step, deleting nothing
EndsAtRecheck(r) ==
  \E t \in Running :
    /\ t.kind = "timer" /\ t.pc = "t1" /\ t.roomId = r
    /\ CopiesIn(t, tasks') < CopiesIn(t, tasks)
    /\ ~\E u \in BagToSet(tasks') : u.kind = "timer" /\ u.pc = "t2" /\ u.roomId = r

TimerDeletesHostless ==
  \A r \in Rooms :
    /\ Fires(r) => (rooms[r].exists /\ rooms[r].hostPeerId = NoPeer)
    /\ ~EndsAtRecheck(r)
    /\ Deleted(r) =>
         \A p \in roomMembers[r] :
           Reachable(p) => Msg(wsConnections[p], "room-closed", r, NoPeer, "") \in out'

DeletedOnlyHostless ==
  /\ \A r \in Rooms : Deleted(r) => rooms[r].hostPeerId = NoPeer
  /\ ClosedOnlyHostless

\* C4: for every interleaving of the timer callback's backend calls with a
\* register-host, claim-host or host restore for the same room, the callback
\* never deletes a room, nor sends room-closed for it, while the room has a
\* host: a room that has been re-hosted is left in place.
C4_TimerSparesRehostedRoom == [][DeletedOnlyHostless]_vars

\* ---------------------------------------------------------------------- C5
\* an earlier transport on which a hello with the same token produced an identity
EarlierHello(w) ==
  {v \in Conns \ {w} : conn'[v].token = conn'[w].token /\ conn'[v].peerId # NoPeer}
\* the handling of a restoring hello ends in this step
RestoreEnds(t) ==
  /\ t.kind = "msg" /\ t.type = "hello"
  /\ t.pc \in {"h3", "h4", "h5", "h6", "h7", "h8"}
  /\ CopiesIn(t, tasks') < CopiesIn(t, tasks)
  /\ ~\E u \in BagToSet(tasks') : u.kind = "msg" /\ u.type = "hello" /\ u.conn = t.conn

\* a successful join is recorded in the joiner's session
JoinRecorded ==
  \A m \in out' :
    m.type = "join-room-success" =>
      /\ sessions'[conn'[m.to].token].roomId = m.roomId
      /\ conn'[m.to].peerId \in roomMembers'[m.roomId]

\* the reply to a hello whose token produced an identity before
ReplayedTokenRestores ==
  \A m \in out' :
    m.type = "peer-id" =>
      \A v \in EarlierHello(m.to) :
        /\ m.info = "restored"
        /\ m.peerId = conn'[v].peerId
        /\ m.roomId = sessions'[conn'[m.to].token].roomId

\* after the restore the identity is in the session's room, if that still exists
RestoredIntoRoom ==
  \A t \in Running :
    RestoreEnds(t) =>
      LET P == conn'[t.conn].peerId
          R == sessions'[conn'[t.conn].token].roomId
      IN (R # NoRoom /\ rooms'[R].exists) =>
           (P \in roomMembers'[R] \/ rooms'[R].hostPeerId = P)

\* C5: session round-trip.  A join of room R by identity P is recorded in P's
\* session; a later hello carrying the same token on a new transport, before
\* the session expires, is answered peer-id with the same P, restored, and
\* roomId R; and when its handling ends P belongs to R (as a member, or as the
\* recorded host when P took the room over), provided R still exists.
C5_SessionRoundTrip ==
  [][JoinRecorded /\ ReplayedTokenRestores /\ RestoredIntoRoom]_vars

\* C5 witness: identity P, a member of r1 under another host, has just been
\* restored on a second transport with its room.
C5_Witness ==
  \E m \in out, v \in Conns :
    /\ m.type = "peer-id" /\ m.info = "restored" /\ m.roomId = "r1"
    /\ v # m.to /\ conn[v].token = conn[m.to].token /\ conn[v].peerId = m.peerId
    /\ m.peerId \in roomMembers["r1"]
    /\ rooms["r1"].exists /\ rooms["r1"].hostPeerId \notin {NoPeer, m.peerId}

\* ---------------------------------------------------------------------- C6
\* the registry holds, for each identity, at most one transport, and it is a
\* transport whose handshake produced that identity
RegistryWellFormed ==
  \A p \in PeerIds :
    wsConnections[p] # NoConn =>
      /\ wsConnections[p] \in Conns
      /\ conn[wsConnections[p]].peerId = p

\* a step that replaces the transport registered for an identity closes the
\* replaced transport and registers the one that said hello
LastWriterWins ==
  \A p \in PeerIds :
    (wsConnections[p] # NoConn /\ wsConnections'[p] \notin {NoConn, wsConnections[p]}) =>
      /\ conn'[wsConnections[p]].state \in {"closing", "closed"}
      /\ conn'[wsConnections'[p]].peerId = p
      /\ \E t \in Running : t.type = "hello" /\ t.conn = wsConnections'[p]

\* C6: single active transport per identity.  The registry maps an identity to
\* at most one transport, which belongs to that identity; and when a hello
\* restores identity P on a new transport while a different transport is
\* registered for P, the old transport is closed and the registry maps P to
\* the new one.
C6_SingleActiveTransport == []RegistryWellFormed /\ [][LastWriterWins]_vars

\* C6 witness: a restore has just replaced an OPEN transport of P.
C6_Witness ==
  \E t \in Running, v \in Conns :
    /\ t.type = "hello" /\ t.pc = "h3" /\ v # t.conn
    /\ conn[v].peerId = conn[t.conn].peerId
    /\ conn[v].state = "closing"
    /\ wsConnections[conn[v].peerId] = t.conn

\* ---------------------------------------------------------------------- C7
\* w is the OPEN transport of its identity: its handshake is complete and every
\* other transport that carried the identity is closing or closed
ActiveTransport(w) ==
  /\ conn[w].state = "open" /\ conn[w].peerId # NoPeer
  /\ ~\E t \in Running : t.type = "hello" /\ t.conn = w
  /\ \A v \in Conns \ {w} : conn[v].peerId = conn[w].peerId => conn[v].state # "open"

\* C7: the transport registry reflects reachability.  Whenever identity P has
\* an open ACTIVE transport that was the last to complete a handshake for P,
\* the registry maps P to that transport and P's peer record exists: the close
\* handling of an older, superseded transport of P removes neither.
C7_RegistryReflectsReachability ==
  \A w \in Conns :
    ActiveTransport(w) =>
      /\ wsConnections[conn[w].peerId] = w
      /\ hasPeer(conn[w].peerId)

\* ---------------------------------------------------------------------- C8
\* the recorded host of room r is live: the room exists and its hostPeerId
\* names an identity with a peer record
HostLive(r) == rooms[r].exists /\ hasPeer(rooms[r].hostPeerId)
\* the handling of a message of this type ends in this step with this reply
Answered(t, type, reply) ==
  /\ t.kind = "msg" /\ t.type = type
  /\ CopiesIn(t, tasks') < CopiesIn(t, tasks)
  /\ \E m \in out' : m.type = reply /\ m.to = t.conn /\ m.roomId = t.roomId
\* the handling of a message of this type gets past its host check in this step
Granted(t, type, next) ==
  /\ t.kind = "msg" /\ t.type = type
  /\ CopiesIn(t, tasks') < CopiesIn(t, tasks)
  /\ \E u \in BagToSet(tasks') : u.kind = "msg" /\ u.conn = t.conn /\ u.pc = next

\* register-host is refused exactly for a room with a live host, and a refusal
\* changes no room record
RegisterHostOutcome ==
  \A t \in Running :
    /\ Answered(t, "register-host", "register-host-failed") =>
         (HostLive(t.roomId) /\ rooms' = rooms)
    /\ Granted(t, "register-host", "rh3") => ~HostLive(t.roomId)

\* a register-host-success leaves the caller recorded as host and no cleanup
\* of the room pending
RegisterHostTakesRoom ==
  \A m \in out :
    m.type = "register-host-success" =>
      /\ rooms[m.roomId].exists
      /\ rooms[m.roomId].hostPeerId = conn[m.to].peerId
      /\ cleanupTimers[m.roomId] = "none"
      /\ ~CleanupPending(m.roomId)

RegisterWouldBeRefused(r) == registerHostRefused(getRoom(r), hasPeer(getRoom(r).hostPeerId))

\* claim-host is refused exactly where register-host would be, with the reason
\* that the room has an active host and without changing a room record
ClaimHostOutcome ==
  \A t \in Running :
    /\ Answered(t, "claim-host", "claim-host-failed") =>
         /\ RegisterWouldBeRefused(t.roomId)
         /\ HostLive(t.roomId)
         /\ rooms' = rooms
         /\ \A m \in out' : m.type = "claim-host-failed" => m.info = "Room already has active host"
    /\ Granted(t, "claim-host", "ch3") => ~RegisterWouldBeRefused(t.roomId)

\* C9: claim-host has the success condition of register-host: in every
\* reachable state a claim-host(R) succeeds exactly when a register-host(R)
\* would; a claim refused because R has a live host is answered
\* claim-host-failed with the reason that the room already has an active host,
\* and the room record is unchanged.
C9_ClaimHostAsRegisterHost == [][ClaimHostOutcome]_vars

\* C9 witness: a claim-host was refused because the room's host, another
\* identity, is live.
C9_Witness ==
  \E m \in out :
    /\ m.type = "claim-host-failed" /\ m.info = "Room already has active host"
    /\ HostLive(m.roomId)
    /\ rooms[m.roomId].hostPeerId # conn[m.to].peerId

\* --------------------------------------------------------------------- C10
\* join-room fails exactly when the room is absent or its host is not live, and
\* a failed join adds nobody
JoinRoomOutcome ==
  \A t \in Running :
    /\ Answered(t, "join-room", "join-room-failed") =>
         (~HostLive(t.roomId) /\ roomMembers' = roomMembers)
    /\ Granted(t, "join-room", "j3") => HostLive(t.roomId)

\* a join-room-success carries the room's host, and the caller is a member
JoinRoomAdmits ==
  \A m \in out :
    m.type = "join-room-success" =>
      /\ conn[m.to].peerId \in roomMembers[m.roomId]
      /\ m.peerId = rooms[m.roomId].hostPeerId
      /\ m.peerId # NoPeer

HostCleared(r) ==
  /\ rooms[r].exists /\ rooms[r].hostPeerId # NoPeer
  /\ rooms'[r].exists /\ rooms'[r].hostPeerId = NoPeer
\* the handling of a leave-room or of a close of identity p's transport ends
HostGoneEnds(t) ==
  /\ \/ t.kind = "msg" /\ t.type = "leave-room"
     \/ t.kind = "close"
  /\ CopiesIn(t, tasks') < CopiesIn(t, tasks)
  /\ ~\E u \in BagToSet(tasks') : u.kind = t.kind /\ u.conn = t.conn

\* clearing the host keeps the record and the members and tells every member
HostClearedKeepsRoom ==
  \A r \in Rooms :
    HostCleared(r) =>
      /\ roomMembers'[r] = roomMembers[r]
      /\ \A p \in roomMembers[r] :
           Reachable(p) =>
             Msg(wsConnections[p], "host-disconnected", r, NoPeer, "") \in out'

\* once the leave-room or close of a host is handled, no room names it as host
HostLossClearsHost ==
  \A t \in Running :
    HostGoneEnds(t) =>
      \A r \in Rooms :
        rooms'[r].exists => rooms'[r].hostPeerId # conn[t.conn].peerId

\* a hostless room has a cleanup pending (or the handler that cleared the host
\* is about to schedule it)
HostlessHasTimer ==
  \A r \in Rooms :
    (rooms[r].exists /\ rooms[r].hostPeerId = NoPeer) =>
      \/ CleanupPending(r)
      \/ \E t \in Running : t.pc \in {"l3", "c4"} /\ t.roomId = r

\* C11: whenever a room's host is lost, by leave-room or by its transport
\* closing, hostPeerId is set to null while the record and the members
\* persist, every member is sent host-disconnected and a cleanup timer is
\* armed; every existing hostless room has a cleanup pending.
C11_HostLoss ==
  /\ []HostlessHasTimer
  /\ [][HostClearedKeepsRoom /\ HostLossClearsHost]_vars

\* --------------------------------------------------------------------- C12
\* a step of the leave-room of an identity that is not the host of its room
MemberLeaveStep(t) ==
  /\ t.kind = "msg" /\ t.type = "leave-room" /\ t.pc \in {"l1", "l4", "l5"}
  /\ t.room.exists /\ t.room.hostPeerId # conn[t.conn].peerId
  /\ CopiesIn(t, tasks') < CopiesIn(t, tasks)

\* the member is taken out of the member set and no room record changes
MemberLeaveRemoves ==
  \A t \in Running :
    MemberLeaveStep(t) =>
      /\ rooms' = rooms
      /\ t.pc = "l1" =>
           roomMembers' = removeRoomMember(roomMembers, t.roomId, conn[t.conn].peerId)
      /\ t.pc # "l1" => conn[t.conn].peerId \notin roomMembers'[t.roomId]

\* the session of the leaver keeps its peerId and its room binding
MemberLeaveKeepsSession ==
  \A t \in Running :
    MemberLeaveStep(t) =>
      LET tok == conn[t.conn].token
      IN /\ sessions'[tok].exists
         /\ sessions'[tok].peerId = sessions[tok].peerId
         /\ sessions'[tok].roomId = sessions[tok].roomId

\* C12: when a non-host member sends leave-room, it is removed from the room's
\* member set, the room's hostPeerId is unchanged, and the leaver's session
\* (its peerId and its room binding) is left untouched.
C12_MemberLeave == [][MemberLeaveRemoves /\ MemberLeaveKeepsSession]_vars

\* --------------------------------------------------------------------- C13
\* a step of a leave-room handler
LeaveStep(t) ==
  /\ t.kind = "msg" /\ t.type = "leave-room" /\ t.pc # "m1"
  /\ CopiesIn(t, tasks') < CopiesIn(t, tasks)

\* the identity of t's transport is in no room, and t is not at the last step
\* of a leave-room, the one after the peer record has been cleared
AlreadyLeft(t) ==
  /\ getPeer(conn[t.conn].peerId).exists
  /\ getPeer(conn[t.conn].peerId).roomId = NoRoom
  /\ t.pc # "l5"

\* a leave-room of an identity that has already left changes nothing and sends
\* nothing
LeftPeerLeaveIsNoOp ==
  \A t \in Running :
    (LeaveStep(t) /\ AlreadyLeft(t)) =>
      /\ UNCHANGED <<rooms, roomMembers, hostWsConnections, cleanupTimers,
                     orphanTimers, peers>>
      /\ \A tok \in Tokens : sessions'[tok].roomId = sessions[tok].roomId
                             /\ sessions'[tok].peerId = sessions[tok].peerId
      /\ ~\E u \in BagToSet(tasks') : u.kind = "sched" /\ CopiesIn(u, tasks') > CopiesIn(u, tasks)
      /\ out' = {}

\* host-disconnected is sent by a leave-room only while the leaver is still
\* recorded as the room's host
NoFurtherNotice ==
  \A t \in Running :
    LeaveStep(t) =>
      \A m \in out' :
        m.type = "host-disconnected" =>
          rooms[m.roomId].hostPeerId = conn[t.conn].peerId

\* C13: leave-room is idempotent: a leave-room from a peer that has already
\* left changes no room, membership, timer or session state, produces no error
\* reply and sends no further host-disconnected, also when the two leave-room
\* messages arrive back to back on the same connection.
C13_LeaveIdempotent == [][LeftPeerLeaveIsNoOp /\ NoFurtherNotice]_vars

\* --------------------------------------------------------------------- C14
\* a restoring hello whose session names a room ends: having taken the room
\* over (h8), or without doing so
RoomRestoreEnds(t) == RestoreEnds(t) /\ t.pc \in {"h4", "h5", "h6", "h8"}

\* the restore takes the room over exactly when it exists and is hostless; then
\* the identity is its host, no cleanup of the room is pending and every
\* member is sent host-reconnected naming the identity
RestoreTakesHostlessRoom ==
  \A t \in Running :
    RoomRestoreEnds(t) =>
      LET R == t.roomId
          P == conn[t.conn].peerId
      IN IF t.pc = "h8"
         THEN /\ rooms'[R] = [exists |-> TRUE, hostPeerId |-> P]
              /\ hostWsConnections'[R] = t.conn
              /\ cleanupTimers'[R] = "none" /\ orphanTimers'[R] = 0
              /\ ~\E u \in BagToSet(tasks') : u.kind \in {"sched", "timer"} /\ u.roomId = R
              /\ \A m \in roomMembers[R] :
                   Reachable(m) =>
                     Msg(wsConnections[m], "host-reconnected", R, P, "") \in out'
         ELSE ~(rooms[R].exists /\ rooms[R].hostPeerId = NoPeer)

\* a room is deleted only while it has no host
HostedRoomKept ==
  \A r \in Rooms : Deleted(r) => rooms[r].hostPeerId = NoPeer

NoHandlerInFlight == ~\E t \in Running : t.kind \in {"msg", "close"}

\* a room with a host has no cleanup timer pending
HostedHasNoTimer ==
  NoHandlerInFlight =>
    \A r \in Rooms :
      (rooms[r].exists /\ rooms[r].hostPeerId # NoPeer) => cleanupTimers[r] # "armed"

\* C15: after a register-host or claim-host succeeds for room R, or a reconnect
\* restores R's host, no cleanup timer is pending for R until R next loses its
\* host: in every reachable state a room with a non-null hostPeerId has no
\* pending cleanup timer, under every interleaving with an in-flight
\* scheduleRoomCleanup.
C15_HostedRoomHasNoTimer == []HostedHasNoTimer

\* --------------------------------------------------------------------- C16
\* a room-info reply names a host only if that identity is live
QueryNamesLiveHost ==
  \A m \in out' :
    (m.type = "room-info" /\ m.peerId # NoPeer) => hasPeer(m.peerId)

\* a join-room-success reply names a live host
JoinNamesLiveHost ==
  \A m \in out' :
    m.type = "join-room-success" => hasPeer(m.peerId)

\* the timer's callback leaves an existing room in place only for a live host
RecheckSparesLiveHost ==
  \A t \in Running :
    ( /\ t.kind = "timer" /\ t.pc = "t1"
      /\ CopiesIn(t, tasks') < CopiesIn(t, tasks)
      /\ ~\E u \in BagToSet(tasks') : u.kind = "timer" /\ u.pc = "t2" /\ u.roomId = t.roomId
      /\ t.room.exists ) => hasPeer(t.room.hostPeerId)

\* C16: a stale hostPeerId is treated as no host by every reader: no query-room
\* reply, no join-room-success reply and no hostless re-check of the cleanup
\* timer treats a room as hosted by an identity that is not live.
C16_StaleHostIsNoHost ==
  [][QueryNamesLiveHost /\ JoinNamesLiveHost /\ RecheckSparesLiveHost]_vars

\* --------------------------------------------------------------------- C17
\* the handshake of transport w is complete
HandshakeDone(w) ==
  /\ conn[w].peerId # NoPeer
  /\ ~\E t \in Running : t.kind = "msg" /\ t.type = "hello" /\ t.conn = w

\* every transport that completed the handshake holds the peerId stored in the
\* session of the token it presented
TokenResolvesToOnePeer ==
  \A w \in Conns :
    HandshakeDone(w) =>
      /\ sessions[conn[w].token].exists
      /\ sessions[conn[w].token].peerId = conn[w].peerId

\* C17: at most one session exists per token and a token resolves to exactly
\* one peerId for its lifetime: for every interleaving of hello messages
\* carrying the same unexpired or previously unseen token, all connections that
\* complete the handshake with that token are assigned the peerId stored in
\* the token's session.
C17_TokenResolvesToOnePeer == []TokenResolvesToOnePeer

\* --------------------------------------------------------------------- C18
\* the claim-host handler t takes its decision in this step
ClaimDecides(t) ==
  /\ t.kind = "msg" /\ t.type = "claim-host"
  /\ t.pc = "ch2" \/ (t.pc = "ch1" /\ ~t.room.exists)
  /\ CopiesIn(t, tasks') < CopiesIn(t, tasks)

\* nothing that t read has been written since: no other handler came between
\* its check and its set
ViewIsCurrent(t) ==
  /\ t.room = getRoom(t.roomId)
  /\ t.pc = "ch2" => t.live = hasPeer(t.room.hostPeerId)

\* a claim that runs alone takes an orphaned room and is refused, without
\* effect, for a room with a live host
SequentialClaimOutcome ==
  \A t \in Running :
    (ClaimDecides(t) /\ ViewIsCurrent(t)) =>
      IF HostLive(t.roomId)
      THEN /\ rooms' = rooms
           /\ Msg(t.conn, "claim-host-failed", t.roomId, NoPeer,
                  "Room already has active host") \in out'
      ELSE /\ rooms'[t.roomId] = [exists |-> TRUE, hostPeerId |-> conn[t.conn].peerId]
           /\ out' = {}

\* a claim writes only its own identity: the record names the last writer
ClaimWritesSelf ==
  \A t \in Running :
    (ClaimDecides(t) /\ rooms' # rooms) =>
      /\ rooms' = setRoom(rooms, t.roomId, conn[t.conn].peerId)

\* a claim-host-success is only sent for a room that has a recorded host
ClaimSuccessHasHost ==
  \A m \in out :
    m.type = "claim-host-success" =>
      rooms[m.roomId].exists /\ rooms[m.roomId].hostPeerId # NoPeer

\* C18: the host-claim path is check-then-set without mutual exclusion: two
\* claim-host handlers of distinct live identities that interleave at their
\* backend calls can both be answered claim-host-success while the room record
\* names only the last writer; when they run one after the other, exactly one
\* succeeds and the other receives claim-host-failed.
C18_ClaimRace ==
  /\ []ClaimSuccessHasHost
  /\ [][SequentialClaimOutcome /\ ClaimWritesSelf]_vars

\* C18 witness: both handlers have ended, the second answer is a
\* claim-host-success to an identity that the room record does not name: the
\* record names the other claimant, which is live on an open transport.
C18_Witness ==
  \E m \in out :
    /\ m.type = "claim-host-success"
    /\ Running = {}
    /\ rooms[m.roomId].hostPeerId \notin {NoPeer, conn[m.to].peerId}
    /\ hasPeer(conn[m.to].peerId)
    /\ hasPeer(rooms[m.roomId].hostPeerId)
    /\ Reachable(rooms[m.roomId].hostPeerId)
    /\ sessions[conn[wsConnections[rooms[m.roomId].hostPeerId]].token].roomId = m.roomId

\* --------------------------------------------------------------------- C19
\* the message and close handlers of transport w that are between two awaits
HandlersOf(w) == {t \in Running : t.conn = w /\ t.kind \in {"msg", "close"}}

\* at most one handler of a transport is in flight
OneHandlerPerConnection ==
  \A w \in Conns :
    /\ Cardinality(HandlersOf(w)) <= 1
    /\ \A t \in HandlersOf(w) : CopiesIn(t, tasks) = 1

\* C19: messages of one connection are processed one at a time in arrival
\* order: the handling of a message, and of the connection's close event, does
\* not begin until every backend call of the previous message on that
\* connection has completed, while handlers of other connections may run in
\* between.
C19_ConnectionSerialized == []OneHandlerPerConnection

\* --------------------------------------------------------------------- C20
\* a message of identity p goes through the rate check in this step
MessageChecked(p) ==
  /\ messageRates' # messageRates
  /\ messageRates'[p] = checkRateLimit(messageRates, p, now)

\* the messages of p counted so far in the window that contains now
CountInWindow(p) ==
  IF messageRates[p].exists /\ now - messageRates[p].windowStart <= windowMs
  THEN messageRates[p].count ELSE 0

\* p is the identity of an OPEN transport after this step
StaysActive(p) == \E w \in Conns : conn'[w].state = "open" /\ conn'[w].peerId = p

\* messages 1..N of a window are routed; a later one in the window is answered
\* with a rate-limit error and changes nothing else, and the transport stays open
RateDecision ==
  \A p \in PeerIds :
    MessageChecked(p) =>
      IF CountInWindow(p) < maxMessages
      THEN /\ \E t \in BagToSet(tasks') :
                /\ t.kind = "msg" /\ t.pc = "m1" /\ conn[t.conn].peerId = p
                /\ CopiesIn(t, tasks') > CopiesIn(t, tasks)
           /\ out' = {}
      ELSE /\ \E m \in out' : m.type = "error" /\ m.info = "rate-limit"
                              /\ conn[m.to].peerId = p
           /\ UNCHANGED <<conn, tasks, rooms, roomMembers, hostWsConnections,
                          cleanupTimers, orphanTimers, sessions, peers>>

\* inside a window the count of an identity that stays ACTIVE is not lost
CountKept ==
  \A p \in PeerIds :
    ( /\ messageRates[p].exists
      /\ now' - messageRates[p].windowStart <= windowMs
      /\ StaysActive(p) ) =>
        /\ messageRates'[p].exists
        /\ messageRates'[p].windowStart = messageRates[p].windowStart
        /\ messageRates'[p].count >= messageRates[p].count

\* C20: rate limiting: with window W and cap N, messages 1..N sent by one
\* ACTIVE identity within one window are routed, and the (N+1)-th message
\* inside the same window is answered with a rate-limit error and is not
\* routed (no room, membership, timer or session-binding change), while the
\* transport stays open.
C20_RateLimit == [][RateDecision /\ CountKept]_vars

\* --------------------------------------------------------------------- C21
\* the message of p checked in this step is admitted: its handler starts and
\* no error is sent
Admitted(p) ==
  /\ \E t \in BagToSet(tasks') :
       /\ t.kind = "msg" /\ t.pc = "m1" /\ conn[t.conn].peerId = p
       /\ CopiesIn(t, tasks') > CopiesIn(t, tasks)
  /\ out' = {}

\* a message checked when the window of an exhausted cap has lasted windowMs
\* or longer starts a new window and is admitted
ElapsedWindowResets ==
  \A p \in PeerIds :
    ( /\ MessageChecked(p)
      /\ messageRates[p].exists
      /\ messageRates[p].count >= maxMessages
      /\ now - messageRates[p].windowStart >= windowMs ) =>
        /\ messageRates'[p] = [exists |-> TRUE, count |-> 1, windowStart |-> now]
        /\ Admitted(p)

\* C21: the rate counter is reset when the window has elapsed: for an identity
\* whose current window started at time s and whose cap is exhausted, a message
\* handled at any time t with t - s >= W starts a new window and is accepted.
C21_WindowReset == [][ElapsedWindowResets]_vars

\* --------------------------------------------------------------------- C22
\* the connections that address ip holds: its transports that are connected
Held(ip) ==
  {w \in Conns : IpOf(w) = ip /\ conn[w].state \in {"open", "closing"}}
    \cup (IF ip = "ip1" THEN connectionsByIp[ip] \cap Background ELSE {})

\* the number of tracked connections of an address never exceeds the maximum
CapRespected ==
  \A ip \in Ips : Cardinality(connectionsByIp[ip]) <= maxConnectionsPerIp

\* a new connection is refused, with an error and without being tracked or
\* given an identity, exactly when its address holds the maximum
AdmissionByCap ==
  \A w \in Conns :
    (conn[w].state = "new" /\ conn'[w].state # "new") =>
      IF Cardinality(Held(IpOf(w))) >= maxConnectionsPerIp
      THEN /\ conn'[w] = [state |-> "rejected", peerId |-> NoPeer, token |-> NoToken]
           /\ Msg(w, "error", NoRoom, NoPeer, "rate-limit") \in out'
           /\ connectionsByIp' = connectionsByIp
      ELSE /\ conn'[w].state = "open"
           /\ w \in connectionsByIp'[IpOf(w)]

\* C22: connection cap: a new connection from a source address that already
\* holds the configured maximum of concurrent connections is sent an error and
\* closed without being tracked or given an identity, so the number of tracked
\* connections per address never exceeds the maximum; a connection from an
\* address below the maximum is admitted.
C22_ConnectionCap == []CapRespected /\ [][AdmissionByCap]_vars

\* --------------------------------------------------------------------- C23
\* the relay of t sends what it was asked to relay
RelaySends(t) ==
  /\ t.kind = "msg" /\ t.pc = "x1"
  /\ CopiesIn(t, tasks') < CopiesIn(t, tasks)

\* a relayed message goes to the registered transport of its target only and
\* names the sender's identity
RelayDelivers ==
  \A t \in Running :
    (RelaySends(t) /\ wsConnections[t.targetPeerId] # NoConn) =>
      out' = {Msg(wsConnections[t.targetPeerId], t.type, NoRoom,
                  conn[t.conn].peerId, "")}

\* C23: relay correctness: an offer, answer or ice-candidate sent by ACTIVE
\* identity A with targetPeerId B is delivered to B's registered transport only
\* and to no other transport, and the delivered message carries
\* fromPeerId = A even when the client-supplied message already contains a
\* different fromPeerId field.
C23_Relay == [][RelayDelivers]_vars

\* a relay about to deliver a message in which the client named another sender
C23_Witness ==
  \E t \in Running :
    /\ t.kind = "msg" /\ t.pc = "x1" /\ t.live
    /\ wsConnections[t.targetPeerId] # NoConn
    /\ t.fromPeerId \notin {NoPeer, conn[t.conn].peerId}
    /\ t.targetPeerId # conn[t.conn].peerId

\* --------------------------------------------------------------------- C24
\* the hello handler of t decides between a new and a restored identity
HelloDecides(t) ==
  /\ t.kind = "msg" /\ t.pc = "h1"
  /\ CopiesIn(t, tasks') < CopiesIn(t, tasks)

\* the session of the token is known and was seen less than the expiry ago
KnownAndFresh(tok) ==
  /\ sessions[tok].exists
  /\ now - sessions[tok].lastSeen < SessionExpiry

\* identity p was never used
Unused(p) ==
  /\ \A tok \in Tokens : sessions[tok].peerId # p
  /\ \A w \in Conns : conn[w].peerId # p
  /\ ~hasPeer(p) /\ wsConnections[p] = NoConn

\* an unknown or stale token gets an unused identity and a session without a
\* room; a known and fresh one gets the identity of its session
HelloChoosesIdentity ==
  \A t \in Running :
    HelloDecides(t) =>
      LET w == t.conn
          tok == conn[w].token
      IN IF KnownAndFresh(tok)
         THEN /\ conn'[w].peerId = sessions[tok].peerId
              /\ sessions'[tok].peerId = sessions[tok].peerId
              /\ minted' = minted
         ELSE /\ Unused(conn'[w].peerId)
              /\ sessions'[tok] = [exists |-> TRUE, peerId |-> conn'[w].peerId,
                                   roomId |-> NoRoom, lastSeen |-> now]

\* the reply of a new identity is peer-id with restored=false, to a registered
\* transport; the reply of a restore is peer-id with restored=true
HelloAnswers ==
  \A t \in Running :
    LET w == t.conn
        p == conn[w].peerId
    IN /\ (t.pc = "n2" /\ CopiesIn(t, tasks') < CopiesIn(t, tasks)) =>
            /\ out' = {Msg(w, "peer-id", NoRoom, p, "new")}
            /\ wsConnections[p] = w
            /\ sessions[conn[w].token].peerId = p
       /\ (t.pc = "h3" /\ CopiesIn(t, tasks') < CopiesIn(t, tasks)) =>
            /\ out' = {Msg(w, "peer-id", t.roomId, p, "restored")}
            /\ sessions[conn[w].token].peerId = p

\* C24: a hello whose token is format-valid but unknown, or whose session is
\* stale (now - lastSeen >= TTL), mints a fresh identity, creates a session
\* binding the token to it with no room, registers the transport for it and
\* replies peer-id with restored=false; a hello whose session is known and
\* fresh (now - lastSeen < TTL) reuses the session's identity and replies
\* restored=true.
C24_HelloNewOrRestore == [][HelloChoosesIdentity /\ HelloAnswers]_vars

\* a hello about to be decided for a session seen exactly the expiry ago
C24_Witness ==
  \E t \in Running :
    /\ t.kind = "msg" /\ t.pc = "h1"
    /\ sessions[conn[t.conn].token].exists
    /\ now - sessions[conn[t.conn].token].lastSeen = SessionExpiry

\* --------------------------------------------------------------------- C25
\* a hello with a malformed token arrives on transport w
InvalidHello(w) == conn[w].token # BadToken /\ conn'[w].token = BadToken

\* it is answered with an error, the transport is closed, nothing is created
InvalidHelloRefused ==
  \A w \in Conns :
    InvalidHello(w) =>
      /\ out' = {Msg(w, "error", NoRoom, NoPeer, "invalid-session")}
      /\ conn'[w].state = "closing" /\ conn'[w].peerId = NoPeer
      /\ UNCHANGED <<wsConnections, hostWsConnections, sessions, peers, rooms,
                     roomMembers, minted, tasks, connectionsByIp>>

\* the close of such a transport releases its place in its address's set
InvalidHelloReleased ==
  \A w \in Conns :
    (conn[w].token = BadToken /\ conn[w].state # "closed" /\ conn'[w].state = "closed") =>
      /\ w \notin connectionsByIp'[IpOf(w)]
      /\ conn'[w].peerId = NoPeer
      /\ UNCHANGED <<wsConnections, sessions, peers, minted, tasks>>

\* C25: a hello whose session token fails format validation is answered with
\* an error and the transport is closed; no identity, session, peer record or
\* registry entry is created, and the connection's per-address tracking is
\* released when it closes.
C25_InvalidToken == [][InvalidHelloRefused /\ InvalidHelloReleased]_vars

\* a transport refused for its token has closed while others are connected
C25_Witness ==
  \E w \in Conns :
    /\ conn[w].token = BadToken /\ conn[w].state = "closed"
    /\ \E v \in Conns \ {w} : IpOf(v) = IpOf(w) /\ v \in connectionsByIp[IpOf(v)]

\* --------------------------------------------------------------------- C26
\* transport w has not completed a handshake
Unauthenticated(w) ==
  /\ conn[w].state = "open" /\ conn[w].peerId = NoPeer
  /\ ~\E t \in Running : t.conn = w

\* a message that is not a hello is handled on w: w is answered and presents
\* no token in this step
OtherMessageAnswered(w) ==
  /\ Unauthenticated(w)
  /\ \E m \in out' : m.to = w
  /\ conn'[w].token = conn[w].token

\* the answer is a protocol-error, w stays open and without identity, and
\* nothing else changes
OnlyHelloAccepted ==
  \A w \in Conns :
    OtherMessageAnswered(w) =>
      /\ out' = {Msg(w, "error", NoRoom, NoPeer, "protocol-error")}
      /\ conn' = conn
      /\ UNCHANGED <<connectionsByIp, wsConnections, hostWsConnections,
                     cleanupTimers, orphanTimers, sessions, peers, rooms,
                     roomMembers, minted, tasks>>

\* C26: in the UNAUTHENTICATED state only hello is accepted: any other
\* well-formed message received before the handshake has completed is
\* answered with a protocol-error, the connection stays open and
\* UNAUTHENTICATED, and no session, room, membership or registry state changes.
C26_OnlyHello == [][OnlyHelloAccepted]_vars

\* a protocol-error was sent to a transport that is still open and without
\* identity, while a room and a session exist
C26_Witness ==
  \E w \in Conns :
    /\ Msg(w, "error", NoRoom, NoPeer, "protocol-error") \in out
    /\ conn[w].state = "open" /\ conn[w].peerId = NoPeer
    /\ \E r \in Rooms : rooms[r].exists

\* --------------------------------------------------------------------- C27
\* no step takes a connected transport away other than by closing it
ProcessSurvives ==
  \A w \in Conns :
    conn[w].state \in {"open", "closing"} => conn'[w].state \in {"open", "closing", "closed"}

\* a handler that ends leaves the transports and identities of the other
\* connections as they were
OthersUnaffected ==
  \A t \in Running :
    (t.kind = "msg" /\ CopiesIn(t, tasks') < CopiesIn(t, tasks)) =>
      \A w \in Conns \ {t.conn} :
        (conn[w].state = "open" /\ conn[w].peerId # conn[t.conn].peerId) =>
          /\ conn'[w] = conn[w]
          /\ wsConnections'[conn[w].peerId] = wsConnections[conn[w].peerId]

\* C27: when a session-ledger or room-directory call fails while a message is
\* being handled, that operation fails gracefully: the process does not crash
\* and the state and message handling of other connections are unaffected.
C27_BackendFailure == [][ProcessSurvives /\ OthersUnaffected]_vars

\* --------------------------------------------------------------------- C28
\* C28: in every reachable state, a room's member set excludes its host: no
\* identity is at the same time the room's hostPeerId and an element of that
\* room's members, after any sequence of join-room, claim-host, register-host,
\* leave-room and session restore.  Stated of the states in which no handler
\* is between two of its awaits.
C28_MembersExcludeHost ==
  NoHandlerInFlight =>
    \A r \in Rooms :
      rooms[r].exists => rooms[r].hostPeerId \notin roomMembers[r]

\* --------------------------------------------------------------------- C29
\* the recorded host of room r is not live: the room names no host, or names
\* an identity without peer record and without a connected transport
WithoutLiveHost(r) ==
  /\ rooms[r].exists
  /\ ~hasPeer(rooms[r].hostPeerId)
  /\ \A w \in Conns : conn[w].state = "open" => conn[w].peerId # rooms[r].hostPeerId

\* C29: every room whose recorded host is not live (hostPeerId null, or naming
\* an identity that is no longer connected) is eventually either given a live
\* host or deleted, assuming timers fire; no room record remains forever
\* without a live host.
C29_HostlessResolved ==
  \A r \in Rooms : WithoutLiveHost(r) ~> (~rooms[r].exists \/ HostLive(r))

\* --------------------------------------------------------------------- C30
\* a join-room-success is sent in this step, with the peer-connecting that
\* names the joiner going to the transport registered for the recorded host
JoinNotifiesHost ==
  \A t \in Running :
    Answered(t, "join-room", "join-room-success") =>
      Msg(wsConnections[rooms[t.roomId].hostPeerId], "peer-connecting", NoRoom,
          conn[t.conn].peerId, "") \in out'

\* between handlers, the host transport entry of a hosted room is the registry
\* entry of its hostPeerId
HostTransportAgrees ==
  NoHandlerInFlight =>
    \A r \in Rooms :
      (rooms[r].exists /\ rooms[r].hostPeerId # NoPeer) =>
        hostWsConnections[r] = wsConnections[rooms[r].hostPeerId]

\* C30: on every successful join-room(R), the peer-connecting notification
\* naming the joiner is sent to the transport currently registered for R's
\* recorded host identity: the room's host transport entry and the registry
\* entry of the room's hostPeerId always denote the same transport.
C30_JoinNotifiesHost == []HostTransportAgrees /\ [][JoinNotifiesHost]_vars

\* --------------------------------------------------------------------- C31
\* the handling of a relay message ends in this step
RelayEnds(t) ==
  /\ t.kind = "msg" /\ t.type \in RelayTypes /\ t.pc \in {"m2", "x1"}
  /\ BagCardinality(tasks') < BagCardinality(tasks)

\* a malformed target is answered invalid-peer and a target without peer
\* record peer-not-found, with nothing delivered; any other relay is delivered
\* to some transport; the sender's connection is left as it was
RelayAnsweredOrDelivered ==
  \A t \in Running :
    RelayEnds(t) =>
      /\ conn' = conn
      /\ IF ~isValidPeerId(t.targetPeerId)
         THEN out' = {Msg(t.conn, "error", NoRoom, NoPeer, "invalid-peer")}
         ELSE IF ~hasPeer(t.targetPeerId)
              THEN out' = {Msg(t.conn, "error", NoRoom, NoPeer, "peer-not-found")}
              ELSE \E m \in out' : m.type = t.type /\ m.to # NoConn

\* C31: a relay message whose targetPeerId is malformed is answered with an
\* invalid-peer error, and one whose target is not live is answered with a
\* peer-not-found error; in both cases nothing is delivered to any transport,
\* the connection stays open, and there is no state in which a relay is
\* accepted (no error to the sender) yet delivered to nobody.
C31_RelayErrors == [][RelayAnsweredOrDelivered]_vars

\* --------------------------------------------------------------------- C32
\* the restore of t writes its identity as host of its session's room
RestoreInstallsHost(t) ==
  /\ t.kind = "msg" /\ t.type = "hello" /\ t.roomId \in Rooms
  /\ rooms'[t.roomId] # rooms[t.roomId]
  /\ rooms'[t.roomId].hostPeerId = conn[t.conn].peerId

\* an identity the restore found among the members of the room is not made
\* its host
MemberStaysMember ==
  \A t \in Running :
    RestoreInstallsHost(t) => conn[t.conn].peerId \notin t.members

\* C32: session restore installs an identity as host of its previous room only
\* if that identity was the room's host when its transport was lost; a
\* restored identity that was only a member of a hostless room stays a member
\* and does not become host.
C32_RestoreOnlyFormerHost == [][MemberStaysMember]_vars

\* --------------------------------------------------------------------- C33
\* nothing is in flight: no handler, callback or scheduling is between awaits
Quiescent == Running = {}

\* an identity has a peer record exactly when the registry holds a transport
\* for it
PeerRecordIffRegistered ==
  Quiescent => \A p \in PeerIds : hasPeer(p) <=> Live(p)

\* an identity none of whose transports is connected has no peer record
DepartedHasNoPeerRecord ==
  Quiescent =>
    \A p \in PeerIds :
      hasPeer(p) => \E w \in Conns : conn[w].peerId = p /\ conn[w].state \in {"open", "closing"}

\* C33: an identity has a peer record in storage (the basis of every
\* host-liveness check via hasPeer) if and only if it has a transport in the
\* registry: once a transport's close handling has completed and no newer
\* transport exists for the identity, no in-flight message handler of that
\* connection re-creates the peer record, so a departed host is never
\* reported live.
C33_PeerRecordIffTransport == PeerRecordIffRegistered /\ DepartedHasNoPeerRecord

\* --------------------------------------------------------------------- C34
\* C34: per-address connection accounting does not leak: in every reachable
\* state the set tracked for an address contains only transports that are
\* still open, i.e. every admitted transport is untracked from its own source
\* address when it closes, whether or not a peer record for its identity still
\* exists at that moment and whatever address that record holds.  Stated of
\* the states in which nothing is in flight.
C34_NoTrackingLeak ==
  Quiescent =>
    \A ip \in Ips :
      \A w \in connectionsByIp[ip] \cap Conns :
        IpOf(w) = ip /\ conn[w].state \in {"open", "closing"}

\* --------------------------------------------------------------------- C35
\* the rooms that record identity p as host, and those that list it as member
HostedBy(p) == {r \in Rooms : rooms[r].exists /\ rooms[r].hostPeerId = p}
JoinedBy(p) == {r \in Rooms : rooms[r].exists /\ p \in roomMembers[r]}

\* C35: each identity is associated with at most one room at a time: in every
\* reachable state an identity is the recorded host of at most one room and an
\* element of at most one room's member set, so a register-host, claim-host or
\* join-room for a second room never leaves the identity recorded in the
\* first.  Stated of the states in which no handler is between two awaits.
C35_OneRoomPerIdentity ==
  NoHandlerInFlight =>
    \A p \in PeerIds :
      /\ Cardinality(HostedBy(p)) <= 1
      /\ Cardinality(JoinedBy(p)) <= 1

\* ---------------------------------------------------------------- C36
\* the delays of the timers a step arms
Armed ==
  {d \in BagToSet(signaling'.reconnectTimers) :
     CopiesIn(d, signaling'.reconnectTimers) > CopiesIn(d, signaling.reconnectTimers)}

\* never more than maxReconnectAttempts automatic attempts scheduled since the
\* last completed handshake
ReconnectAttemptsBounded == observed.unanswered <= maxReconnectAttempts

\* the timer armed for attempt k, the k-th since the last completed handshake,
\* has the delay min(1000 * 2^k, 30000)
ReconnectDelayFollowsAttempt ==
  \A d \in Armed : d = Min(1000 * 2^(observed'.unanswered), 30000)

\* C36: after the signaling connection is lost the client makes at most
\* maxReconnectAttempts automatic reconnect attempts without a completed
\* handshake, and the delay before attempt k is min(1000 * 2^k, 30000) ms.
C36_ReconnectBounded ==
  [](ReconnectAttemptsBounded) /\ [][ReconnectDelayFollowsAttempt]_vars

\* ---------------------------------------------------------------- C37
\* a reconnect timer fires and its connect() constructs a WebSocket
ReconnectOpensSocket ==
  /\ BagCardinality(signaling'.reconnectTimers)
       < BagCardinality(signaling.reconnectTimers)
  /\ ~signaling.connectPromise
  /\ signaling'.ws = NewSocket

NoSocketAfterDisconnect == observed.disconnected => ~ReconnectOpensSocket

\* C37: after the application has called disconnect(), and until it calls
\* connect() again, the client opens no new WebSocket on its own.
C37_DisconnectStaysDisconnected == [][NoSocketAfterDisconnect]_vars

\* ---------------------------------------------------------------- C38
\* every element of q occurs in r, and in the order it has in q
InOrderWithin(q, r) ==
  /\ \A i \in 1..Len(q) : \E k \in 1..Len(r) : r[k] = q[i]
  /\ \A i, j \in 1..Len(q) :
       i < j => \A k, l \in 1..Len(r) : r[k] = q[i] /\ r[l] = q[j] => k < l

\* C38: no ICE candidate is lost: once the remote description of the peer's
\* connection has been set and the buffered candidates have been applied,
\* every candidate that arrived before the remote description, including those
\* that arrived before the connection existed, has been passed to
\* addIceCandidate, in arrival order.
C38_NoCandidateLost ==
  webrtc.pc = "remote" /\ webrtc.handler = "idle" =>
    InOrderWithin(observed.early, webrtc.added)

=============================================================================
